---------------------------- MODULE Spec2Model ----------------------------
(***************************************************************************)
(* ChibiOS/RT Cortex-M port and HAL drivers: a model of the context        *)
(* switch (_port_switch), of the interrupt epilogue and its deferred       *)
(* switch (_port_irq_epilogue, _port_switch_from_isr, SVCallVector,        *)
(* PendSVVector), of the thread start stub (_port_thread_start), of the    *)
(* system tick handler (SysTickVector) and of the MMC insertion monitor    *)
(* callback (tmrfunc), together with the kernel services they call.        *)
(*                                                                         *)
(* Three specifications share the module:                                  *)
(*   SpecSwitch  the register-level machine that executes _port_switch;    *)
(*   Spec        threads, interrupts, the system lock and the scheduler;   *)
(*   SpecTick    the tick handler, the virtual timers and tmrfunc;         *)
(*   SpecBus     threads that share the I2C bus.                           *)
(* Spec and SpecTick describe a build without CORTEX_USE_FPU, in which a   *)
(* thread switched in continues where it was switched out.                 *)
(***************************************************************************)
EXTENDS Integers, Sequences, FiniteSets, TLC

VARIABLES
  \* ---- SpecSwitch: the register-level machine
  port,        \* build: "v7m" (no FPU), "v7m_fpu" (CORTEX_USE_FPU), "v6m"
  cpu,         \* [r: core registers r0..r12 and lr, s: s16..s31, sp, pc]
  mem,         \* mem[t]: the words of thread t's stack, bottom first
  ctx,         \* ctx[t]: the saved stack pointer, the word at Thread+12
  swcur,       \* the thread whose code the processor executes
  atCall,      \* atCall[t]: registers and sp when t last called _port_switch
  resumed,     \* TRUE in the state that follows a _port_switch
  \* ---- Spec and SpecTick: threads, interrupts, lock, scheduler, timers
  mode,        \* "svc": advanced kernel mode, "pendsv": CORTEX_SIMPLIFIED_PRIORITY
  lk,          \* the system lock: [held, err, byEpi, epiErr]
  isr,         \* active exception handlers, outermost first: [irq, pc, cb]
  pendsv,      \* ICSR.PENDSVSET
  currp,       \* the current thread
  rlist,       \* the ready list, head first
  tstate,      \* tstate[t]: thread state
  tstack,      \* tstack[t]: thread-mode contexts on t's process stack, top last
  sem,         \* the semaphore: [cnt, queue, seq]
  readySeq,    \* the ready threads in the order in which they became ready
  irqCtx,      \* what the interrupts did since the last thread-level step
  r0,          \* r0[t]: the call _port_thread_start made for t: [fn, arg]
  vtlist,      \* the delta list of armed virtual timers: [id, delta]
  mmc,         \* mmc[d]: MMC driver d: [state, cnt, ev]
  vtmon,       \* what was asked of the timers: [due, err]
  bus,         \* the I2C driver's bus lock: [build, mtx, sem, inbus]
  evt,         \* the event listener: [src, thr, pending, wmask, ret]
  call,        \* the last call of the MMC driver: [fn, d, thr, entry, seen, ret, ...]
  spi,         \* the SPI bus of the MMC driver: [sel]
  hs,          \* the handshake of mmcConnect: [i, cmd0, acmd41, cmd1]
  i2c          \* the I2C driver: [state, errors, thr, ...]

swvars == <<port, cpu, mem, ctx, swcur, atCall, resumed>>
kvars == <<mode, lk, isr, pendsv, currp, rlist, tstate, tstack, sem,
           readySeq, irqCtx, r0>>
bvars == <<bus, evt, call>>
dvars == <<spi, hs, i2c>>
tvars == <<vtlist, mmc, vtmon, bvars, dvars>>
vars == <<swvars, kvars, tvars>>

(***************************************************************************)
(* Bounds.                                                                 *)
(***************************************************************************)
NSwThreads == 2      \* threads of the register-level machine
ValMod == 3          \* register values are 0 .. ValMod-1
StackWords == 64     \* words of one thread's stack region

(***************************************************************************)
(* The register-level machine.  An address is StackWords * t + d: the top  *)
(* of thread t's stack when d words of it are in use.                      *)
(***************************************************************************)
SwThreads == 1..NSwThreads
CoreRegs == (0..12) \cup {14}
FpuRegs == 16..31
SP == 13
LR == 14
PC == 15
CONTEXT_OFFSET == 12

Instr(op, a, b, list) == [op |-> op, a |-> a, b |-> b, list |-> list]

Range(lo, hi) == [i \in 1..(hi - lo + 1) |-> lo + i - 1]

Reverse(s) == [i \in 1..Len(s) |-> s[Len(s) + 1 - i]]

StackOf(addr) == addr \div StackWords
DepthOf(addr) == addr % StackWords

\* The value of a register operand: sp is register 13.
RegVal(m, n) == IF n = SP THEN m.sp ELSE IF n \in FpuRegs THEN m.s[n] ELSE m.r[n]

\* push/vpush {list}: the lowest register ends at the lowest address, which
\* is the new top of the stack.
ExecPush(m, list) ==
  LET t == StackOf(m.sp)
      d == DepthOf(m.sp)
      words == [i \in 1..Len(list) |-> RegVal(m, Reverse(list)[i])]
  IN [m EXCEPT !.mem[t] = SubSeq(@, 1, d) \o words,
               !.sp = m.sp + Len(list)]

\* pop/vpop {list}: the lowest register is loaded from the top of the stack;
\* loading pc is a branch.
ExecPop(m, list) ==
  LET t == StackOf(m.sp)
      d == DepthOf(m.sp)
      val(i) == m.mem[t][d + 1 - i]
      idx(n) == CHOOSE i \in 1..Len(list) : list[i] = n
      has(n) == \E i \in 1..Len(list) : list[i] = n
  IN [m EXCEPT !.r = [n \in CoreRegs |-> IF has(n) THEN val(idx(n)) ELSE @[n]],
               !.s = [n \in FpuRegs |-> IF has(n) THEN val(idx(n)) ELSE @[n]],
               !.pc = IF has(PC) THEN val(idx(PC)) ELSE @,
               !.branched = has(PC),
               !.mem[t] = SubSeq(@, 1, d - Len(list)),
               !.sp = m.sp - Len(list)]

ExecMov(m, rd, rm) ==
  IF rd = SP THEN [m EXCEPT !.sp = RegVal(m, rm)]
  ELSE [m EXCEPT !.r[rd] = RegVal(m, rm)]

\* str rt, [rn, #CONTEXT_OFFSET]: the saved stack pointer of thread r[rn].
ExecStr(m, rt, rn) == [m EXCEPT !.ctx[m.r[rn]] = RegVal(m, rt)]

ExecLdr(m, rt, rn) ==
  IF rt = SP THEN [m EXCEPT !.sp = m.ctx[m.r[rn]]]
  ELSE [m EXCEPT !.r[rt] = m.ctx[m.r[rn]]]

Exec(m, i) ==
  CASE i.op = "push" -> ExecPush(m, i.list)
    [] i.op = "pop" -> ExecPop(m, i.list)
    [] i.op = "mov" -> ExecMov(m, i.a, i.b)
    [] i.op = "str" -> ExecStr(m, i.a, i.b)
    [] i.op = "ldr" -> ExecLdr(m, i.a, i.b)

\* Straight-line execution: the instructions that follow a branch are not
\* executed.
RECURSIVE Run(_, _)
Run(m, code) ==
  IF code = <<>> \/ m.branched THEN m
  ELSE Run(Exec(m, Head(code)), Tail(code))

PUSH_CONTEXT(p) ==
  IF p = "v7m_fpu"
  THEN << Instr("push", 0, 0, Range(16, 31)),
          Instr("push", 0, 0, <<4, 5, 6, 7, 8, 9, 10, 11, LR>>) >>
  ELSE << Instr("push", 0, 0, <<4, 5, 6, 7, 8, 9, 10, 11, LR>>) >>

POP_CONTEXT(p) ==
  IF p = "v7m_fpu"
  THEN << Instr("pop", 0, 0, <<4, 5, 6, 7, 8, 9, 10, 11, PC>>),
          Instr("pop", 0, 0, Range(16, 31)) >>
  ELSE << Instr("pop", 0, 0, <<4, 5, 6, 7, 8, 9, 10, 11, PC>>) >>

\* _port_switch of the ARMv7-M port: r0 = ntp, r1 = otp.
PortSwitchV7M(p) ==
  PUSH_CONTEXT(p)
  \o << Instr("str", SP, 1, <<>>), Instr("ldr", SP, 0, <<>>) >>
  \o POP_CONTEXT(p)

\* _port_switch of the ARMv6-M port.
PortSwitchV6M ==
  << Instr("push", 0, 0, <<4, 5, 6, 7, LR>>),
     Instr("mov", 4, 8, <<>>),
     Instr("mov", 5, 9, <<>>),
     Instr("mov", 6, 10, <<>>),
     Instr("mov", 7, 11, <<>>),
     Instr("push", 0, 0, <<4, 5, 6, 7>>),
     Instr("mov", 3, SP, <<>>),
     Instr("str", 3, 1, <<>>),
     Instr("ldr", 3, 0, <<>>),
     Instr("mov", SP, 3, <<>>),
     Instr("pop", 0, 0, <<4, 5, 6, 7>>),
     Instr("mov", 8, 4, <<>>),
     Instr("mov", 9, 5, <<>>),
     Instr("mov", 10, 6, <<>>),
     Instr("mov", 11, 7, <<>>),
     Instr("pop", 0, 0, <<4, 5, 6, 7, PC>>) >>

PortSwitchCode(p) == IF p = "v6m" THEN PortSwitchV6M ELSE PortSwitchV7M(p)

\* The part of _port_switch a switched-out thread has executed: everything
\* up to and including the store of its stack pointer.
RECURSIVE SaveLen(_)
SaveLen(code) == IF Head(code).op = "str" THEN 1 ELSE 1 + SaveLen(Tail(code))

SaveHalf(p) == SubSeq(PortSwitchCode(p), 1, SaveLen(PortSwitchCode(p)))

HasFpu(p) == p = "v7m_fpu"

\* Register contents a thread may hold: every register differs from its
\* neighbours, so that a permuted save or restore shows.
Pattern(seed, p) ==
  [r |-> [n \in CoreRegs |-> (seed + n) % ValMod],
   s |-> [n \in FpuRegs |-> IF HasFpu(p) THEN (seed + 2 * n + 1) % ValMod ELSE 0]]

\* The callee-saved state of the machine: what _port_switch must preserve.
NonVolatile(m) ==
  [r |-> [n \in 4..11 |-> m.r[n]], s |-> m.s, sp |-> m.sp, ret |-> m.r[LR]]

Machine(regs, sp, memory, context) ==
  [r |-> regs.r, s |-> regs.s, sp |-> sp, pc |-> 0, branched |-> FALSE,
   mem |-> memory, ctx |-> context]

\* A thread that is not running was switched out by _port_switch: its stack
\* holds what the save half pushed and ctx[t] the stack pointer it stored.
RECURSIVE SwitchedOut(_, _, _, _)
SwitchedOut(m, ts, seeds, p) ==
  IF ts = {} THEN m
  ELSE LET t == CHOOSE x \in ts : TRUE
           regs == Pattern(seeds[t], p)
           m1 == [m EXCEPT !.r = [regs.r EXCEPT ![1] = t], !.s = regs.s,
                           !.sp = StackWords * t]
       IN SwitchedOut(Run(m1, SaveHalf(p)), ts \ {t}, seeds, p)

InitSwitch ==
  /\ port \in {"v7m", "v7m_fpu", "v6m"}
  /\ swcur = 1
  /\ resumed = FALSE
  /\ \E seeds \in [SwThreads -> 0..(ValMod - 1)] :
       LET blank == Machine(Pattern(0, port), 0,
                            [t \in SwThreads |-> <<>>], [t \in SwThreads |-> 0])
           m == SwitchedOut(blank, SwThreads \ {1}, seeds, port)
           regs == Pattern(seeds[1], port)
       IN /\ cpu = [r |-> regs.r, s |-> regs.s, sp |-> StackWords * 1, pc |-> 0]
          /\ mem = m.mem
          /\ ctx = m.ctx
          /\ atCall = [t \in SwThreads |->
                         NonVolatile([r |-> Pattern(seeds[t], port).r,
                                      s |-> Pattern(seeds[t], port).s,
                                      sp |-> StackWords * t])]

\* The running thread computes: its registers change, its stack is balanced.
SwCompute(seed) ==
  /\ cpu' = [cpu EXCEPT !.r = Pattern(seed, port).r, !.s = Pattern(seed, port).s]
  /\ resumed' = FALSE
  /\ UNCHANGED <<port, mem, ctx, swcur, atCall, kvars, tvars>>

ContextWords(p) == IF HasFpu(p) THEN 25 ELSE 9

\* The running thread calls _port_switch(ntp, otp) with otp itself; the
\* processor then executes ntp from the address popped into pc.
PortSwitch(ntp) ==
  LET otp == swcur
      m == Machine([r |-> [cpu.r EXCEPT ![0] = ntp, ![1] = otp], s |-> cpu.s],
                   cpu.sp, mem, ctx)
      n == Run(m, PortSwitchCode(port))
  IN /\ ntp # otp
     /\ DepthOf(cpu.sp) + ContextWords(port) < StackWords
     /\ cpu' = [r |-> n.r, s |-> n.s, sp |-> n.sp, pc |-> n.pc]
     /\ mem' = n.mem
     /\ ctx' = n.ctx
     /\ swcur' = ntp
     /\ atCall' = [atCall EXCEPT ![otp] = NonVolatile(m)]
     /\ resumed' = TRUE
     /\ UNCHANGED <<port, kvars, tvars>>

NextSwitch ==
  \/ \E seed \in 0..(ValMod - 1) : SwCompute(seed)
  \/ \E ntp \in SwThreads : PortSwitch(ntp)

\* What the resumed thread finds in the callee-saved registers, in sp and
\* at the return address.
Resumed == [r |-> [n \in 4..11 |-> cpu.r[n]], s |-> cpu.s, sp |-> cpu.sp,
            ret |-> cpu.pc]

(* C1: a thread switched out by _port_switch and later switched back in
   resumes at its return address with its stack pointer and every
   callee-saved register (r4-r11, s16-s31 with the FPU) as they were when it
   called _port_switch, in every build of the port. *)
C1_RoundTrip == resumed => Resumed = atCall[swcur]

\* The same round trip in the builds without FPU (ARMv7-M and ARMv6-M).
RoundTripNoFpu == (resumed /\ ~HasFpu(port)) => Resumed = atCall[swcur]

\* What the FPU build does instead: pop {r4-r11, pc} branches before vpop,
\* so the core registers and the return address are restored, s16-s31 keep
\* the values of the thread switched out and sp stays 16 words off.
FpuResume ==
  (resumed /\ HasFpu(port)) =>
    /\ Resumed.r = atCall[swcur].r
    /\ Resumed.ret = atCall[swcur].ret
    /\ Resumed.sp = atCall[swcur].sp + 16

(***************************************************************************)
(* Threads, interrupts, the system lock and the scheduler.                 *)
(***************************************************************************)
NThreads == 3        \* threads besides the idle thread
MaxSem == 1          \* the semaphore counter is not signalled beyond this
MaxSignals == 2      \* chSemSignalI calls of one handler invocation

IDLE == 0
Threads == 0..NThreads
Workers == 1..NThreads

\* Thread priorities: the idle thread is the lowest, workers 2 and 3 share a
\* priority above worker 1.
Prio(t) == IF t = IDLE THEN 0 ELSE (t + 2) \div 2

\* What the creator of thread t puts in its first context: the entry
\* function in r4 and its argument in r5.
StartCtx(t) == [r4 |-> 20 + t, r5 |-> 10 + t]

NoCall == [fn |-> 0, arg |-> 0]

\* Interrupt priorities: a handler is preempted only by a more urgent one.
IrqPrio(irq) == IF irq = "ext" THEN 2 ELSE 1

(***************************************************************************)
(* The system lock: BASEPRI raised to the kernel level (PRIMASK in the     *)
(* simplified-priority mode).  err records an acquisition made while the   *)
(* lock is held or a release made while it is not.                         *)
(***************************************************************************)
\* port_lock / port_lock_from_isr.
PortLock(l) ==
  [held |-> TRUE, err |-> l.err \/ l.held,
   byEpi |-> FALSE, epiErr |-> l.epiErr \/ (l.held /\ l.byEpi)]

\* port_unlock / port_unlock_from_isr.
PortUnlock(l) ==
  [held |-> FALSE, err |-> l.err \/ ~l.held,
   byEpi |-> l.byEpi, epiErr |-> l.epiErr \/ (~l.held /\ l.byEpi)]

\* The acquisition made by _port_irq_epilogue: byEpi marks it as the latest
\* one, epiErr records that it met a lock already held, that a second
\* acquisition joined it, or that it was released twice.
PortLockEpi(l) ==
  [held |-> TRUE, err |-> l.err \/ l.held,
   byEpi |-> TRUE, epiErr |-> l.epiErr \/ l.held]

(***************************************************************************)
(* The scheduler, on a record k = [currp, rlist, tstate, readySeq, woke].  *)
(***************************************************************************)
Sched == [currp |-> currp, rlist |-> rlist, tstate |-> tstate,
          readySeq |-> readySeq, woke |-> {}]

Remove(q, t) == SelectSeq(q, LAMBDA x : x # t)

\* A queueing position ahead of the queued threads of the same priority.
RECURSIVE InsertPosLifo(_, _)
InsertPosLifo(q, p) ==
  IF q = <<>> \/ Prio(Head(q)) <= p THEN 1 ELSE 1 + InsertPosLifo(Tail(q), p)

\* The position before which a thread of priority p is queued: behind every
\* queued thread of the same or a higher priority.
RECURSIVE InsertPos(_, _)
InsertPos(q, p) ==
  IF q = <<>> \/ Prio(Head(q)) < p THEN 1 ELSE 1 + InsertPos(Tail(q), p)

PrioInsert(q, t) ==
  LET i == InsertPos(q, Prio(t))
  IN SubSeq(q, 1, i - 1) \o <<t>> \o SubSeq(q, i, Len(q))

\* enqueueReady.
chSchReadyI(k, t) ==
  [k EXCEPT !.tstate[t] = "READY",
            !.rlist = PrioInsert(k.rlist, t),
            !.readySeq = Append(k.readySeq, t),
            !.woke = k.woke \cup {t}]

\* isPreemptionRequired: whether the head of the ready list is more urgent
\* than the current thread.
chSchIsPreemptionRequired(k) ==
  k.rlist # <<>> /\ Prio(Head(k.rlist)) > Prio(k.currp)

\* selectNext and the switch to it; the thread switched out is queued.
chSchDoReschedule(k) ==
  LET otp == k.currp
      ntp == Head(k.rlist)
      k1 == [k EXCEPT !.currp = ntp,
                      !.rlist = Tail(k.rlist),
                      !.readySeq = Remove(k.readySeq, ntp),
                      !.tstate[ntp] = "CURRENT"]
  IN [chSchReadyI(k1, otp) EXCEPT !.woke = k.woke]

\* The current thread leaves the processor in state st.
chSchGoSleepS(k, st) ==
  LET ntp == Head(k.rlist)
  IN [k EXCEPT !.tstate[k.currp] = st,
               !.tstate[ntp] = "CURRENT",
               !.currp = ntp,
               !.rlist = Tail(k.rlist),
               !.readySeq = Remove(k.readySeq, ntp)]

\* reschedule.
chSchRescheduleS(k) ==
  IF chSchIsPreemptionRequired(k) THEN chSchDoReschedule(k) ELSE k

\* A thread is made ready from thread context.
chSchWakeupS(k, t) == chSchRescheduleS(chSchReadyI(k, t))

(***************************************************************************)
(* The semaphore, on a pair [s, k] of semaphore and scheduler records.     *)
(***************************************************************************)
\* A signal that counts and wakes nobody.
SemSignalNoWake(x) == [s |-> [x.s EXCEPT !.cnt = x.s.cnt + 1], k |-> x.k]

\* A signal that wakes the last waiter of the queue.
SemSignalWakeLast(x) ==
  IF x.s.cnt + 1 <= 0
  THEN LET t == x.s.queue[Len(x.s.queue)]
       IN [s |-> [cnt |-> x.s.cnt + 1, queue |-> Remove(x.s.queue, t),
                  seq |-> Remove(x.s.seq, t)],
           k |-> chSchReadyI(x.k, t)]
  ELSE [s |-> [x.s EXCEPT !.cnt = x.s.cnt + 1], k |-> x.k]

\* signal: the count is incremented and the first waiter, when there is
\* one, made ready.  seq records the waiters in their order of arrival.
chSemSignalI(x) ==
  IF x.s.cnt + 1 <= 0
  THEN [s |-> [cnt |-> x.s.cnt + 1, queue |-> Tail(x.s.queue),
               seq |-> Remove(x.s.seq, Head(x.s.queue))],
        k |-> chSchReadyI(x.k, Head(x.s.queue))]
  ELSE [s |-> [x.s EXCEPT !.cnt = x.s.cnt + 1], k |-> x.k]

RECURSIVE SignalTimes(_, _)
SignalTimes(x, n) == IF n = 0 THEN x ELSE SignalTimes(chSemSignalI(x), n - 1)

(***************************************************************************)
(* Exceptions.  isr holds the active handlers; a thread-mode context that  *)
(* was interrupted stays on top of tstack[currp], and the frame the        *)
(* epilogue adds above it is the one the exception return resumes.         *)
(***************************************************************************)
Top(t) == tstack[t][Len(tstack[t])]
SetTop(t, f) == [tstack EXCEPT ![t] = [@ EXCEPT ![Len(@)] = f]]
PushFrame(t, f) == [tstack EXCEPT ![t] = Append(@, f)]
PopFrame(t) == [tstack EXCEPT ![t] = SubSeq(@, 1, Len(@) - 1)]

Handler == isr[Len(isr)]
InHandler(irq, pc) == isr # <<>> /\ Handler.irq = irq /\ Handler.pc = pc
AtPc(pc) == isr # <<>> /\ Handler.pc = pc
Goto(pc) == [isr EXCEPT ![Len(isr)].pc = pc]

SchedTo(k) ==
  /\ currp' = k.currp
  /\ rlist' = k.rlist
  /\ tstate' = k.tstate
  /\ readySeq' = k.readySeq

IrqOff == [on |-> FALSE, thr |-> 0, woke |-> {}, ran |-> FALSE]

\* The threads the handlers made ready that are more urgent than the
\* thread the interrupt was taken from.
HigherWoken(c) == {t \in c.woke : Prio(t) > Prio(c.thr)}

\* An interrupt is taken: the lock is not held, no PendSV is pending and no
\* handler of the same or a higher priority is active.
IrqEntry(irq) ==
  /\ ~lk.held
  /\ ~pendsv
  /\ \A i \in DOMAIN isr : IrqPrio(isr[i].irq) < IrqPrio(irq)
  /\ isr' = Append(isr, [irq |-> irq, pc |-> "h0", cb |-> 0])
  /\ irqCtx' = IF isr = <<>>
               THEN [on |-> TRUE, thr |-> currp, woke |-> {}, ran |-> FALSE]
               ELSE irqCtx
  /\ UNCHANGED <<swvars, mode, lk, pendsv, currp, rlist, tstate, tstack, sem,
                 readySeq, r0, tvars>>

\* SysTickVector: chSysLockFromIsr().
SysTickLock ==
  /\ InHandler("tick", "h0")
  /\ lk' = PortLock(lk)
  /\ isr' = Goto("h1")
  /\ UNCHANGED <<swvars, mode, pendsv, currp, rlist, tstate, tstack, sem,
                 readySeq, irqCtx, r0, tvars>>

\* SysTickVector: chSysUnlockFromIsr().
SysTickUnlock ==
  /\ InHandler("tick", "h2")
  /\ lk' = PortUnlock(lk)
  /\ isr' = Goto("h3")
  /\ UNCHANGED <<swvars, mode, pendsv, currp, rlist, tstate, tstack, sem,
                 readySeq, irqCtx, r0, tvars>>

\* A handler that signals the semaphore n times in one locked section.
ExtSignal(n) ==
  /\ InHandler("ext", "h0")
  /\ sem.cnt + n <= MaxSem
  /\ LET x == SignalTimes([s |-> sem, k |-> Sched], n)
     IN /\ sem' = x.s
        /\ SchedTo(x.k)
        /\ irqCtx' = [irqCtx EXCEPT !.woke = @ \cup x.k.woke]
  /\ lk' = PortLock(lk)
  /\ isr' = Goto("h2")
  /\ UNCHANGED <<swvars, mode, pendsv, tstack, r0, tvars>>

ExtUnlock ==
  /\ InHandler("ext", "h2")
  /\ lk' = PortUnlock(lk)
  /\ isr' = Goto("h3")
  /\ UNCHANGED <<swvars, mode, pendsv, currp, rlist, tstate, tstack, sem,
                 readySeq, irqCtx, r0, tvars>>

\* A RETTOBASE bit that reads as zero.
NeverToBase == FALSE

\* ICSR.RETTOBASE: the executing handler is the only active exception.
RETTOBASE == Len(isr) = 1

\* _port_irq_epilogue with the lock released before the return in both
\* branches.
EpilogueUnlocked ==
  /\ AtPc("h3")
  /\ lk' = PortUnlock(PortLockEpi(lk))
  /\ tstack' = IF RETTOBASE THEN PushFrame(currp, "sfi") ELSE tstack
  /\ isr' = Goto("ret")
  /\ UNCHANGED <<swvars, mode, pendsv, currp, rlist, tstate, sem, readySeq, irqCtx,
                 r0, tvars>>

\* _port_irq_epilogue: with RETTOBASE set, an exception return context that
\* resumes at _port_switch_from_isr is added to the process stack and the
\* handler returns with the lock held.
PortIrqEpilogue ==
  /\ AtPc("h3")
  /\ IF RETTOBASE
     THEN /\ lk' = PortLockEpi(lk)
          /\ tstack' = PushFrame(currp, "sfi")
     ELSE /\ lk' = PortUnlock(PortLockEpi(lk))
          /\ tstack' = tstack
  /\ isr' = Goto("ret")
  /\ UNCHANGED <<swvars, mode, pendsv, currp, rlist, tstate, sem, readySeq, irqCtx,
                 r0, tvars>>

\* The exception return of a handler.
ExcReturn ==
  /\ AtPc("ret")
  /\ isr' = SubSeq(isr, 1, Len(isr) - 1)
  /\ UNCHANGED <<swvars, mode, lk, pendsv, currp, rlist, tstate, tstack, sem,
                 readySeq, irqCtx, r0, tvars>>

\* Thread-mode code of the current thread executes at frame f.
Running(f) == isr = <<>> /\ ~pendsv /\ Top(currp) = f

\* _port_switch_from_isr that never reschedules.
SwitchFromIsrNoResched ==
  /\ Running("sfi")
  /\ tstack' = SetTop(currp, "sfi_exit")
  /\ UNCHANGED <<swvars, mode, lk, isr, pendsv, currp, rlist, tstate, sem, readySeq,
                 irqCtx, r0, tvars>>

\* _port_switch_from_isr that switches to the first ready thread and leaves
\* it queued.
SwitchFromIsrKeepQueued ==
  /\ Running("sfi")
  /\ tstack' = SetTop(currp, "sfi_exit")
  /\ SchedTo(IF chSchIsPreemptionRequired(Sched)
             THEN [chSchDoReschedule(Sched) EXCEPT !.rlist = rlist]
             ELSE Sched)
  /\ UNCHANGED <<swvars, mode, lk, isr, pendsv, sem, irqCtx, r0, tvars>>

\* _port_switch_from_isr that reschedules without asking.
SwitchFromIsrAlways ==
  /\ Running("sfi")
  /\ tstack' = SetTop(currp, "sfi_exit")
  /\ SchedTo(IF rlist # <<>> THEN chSchDoReschedule(Sched) ELSE Sched)
  /\ UNCHANGED <<swvars, mode, lk, isr, pendsv, sem, irqCtx, r0, tvars>>

\* _port_switch_from_isr up to the reschedule: the thread switched out
\* continues, when it is switched in again, behind chSchDoReschedule().
PortSwitchFromIsr ==
  /\ Running("sfi")
  /\ tstack' = SetTop(currp, "sfi_exit")
  /\ SchedTo(IF chSchIsPreemptionRequired(Sched)
             THEN chSchDoReschedule(Sched) ELSE Sched)
  /\ UNCHANGED <<swvars, mode, lk, isr, pendsv, sem, irqCtx, r0, tvars>>

\* An SVCallVector that leaves BASEPRI raised.
SVCallNoUnlock ==
  /\ mode = "svc"
  /\ Running("sfi_exit")
  /\ tstack' = PopFrame(currp)
  /\ UNCHANGED <<swvars, mode, lk, isr, pendsv, currp, rlist, tstate, sem, readySeq,
                 irqCtx, r0, tvars>>

\* svc #0 and SVCallVector: the context of _port_switch_from_isr is
\* discarded and the lock released.
SVCallVector ==
  /\ mode = "svc"
  /\ Running("sfi_exit")
  /\ tstack' = PopFrame(currp)
  /\ lk' = PortUnlock(lk)
  /\ UNCHANGED <<swvars, mode, isr, pendsv, currp, rlist, tstate, sem, readySeq,
                 irqCtx, r0, tvars>>

\* The end of _port_switch_from_isr in the simplified-priority mode:
\* PendSV is requested, the lock released, and the code spins.
PortSwitchFromIsrPend ==
  /\ mode = "pendsv"
  /\ Running("sfi_exit")
  /\ pendsv' = TRUE
  /\ lk' = PortUnlock(lk)
  /\ tstack' = SetTop(currp, "spin")
  /\ UNCHANGED <<swvars, mode, isr, currp, rlist, tstate, sem, readySeq, irqCtx,
                 r0, tvars>>

\* PendSVVector: taken as soon as the lock is released; the context it
\* interrupted is discarded.
PendSVVector ==
  /\ mode = "pendsv"
  /\ pendsv
  /\ ~lk.held
  /\ isr = <<>>
  /\ pendsv' = FALSE
  /\ tstack' = PopFrame(currp)
  /\ UNCHANGED <<swvars, mode, lk, isr, currp, rlist, tstate, sem, readySeq, irqCtx,
                 r0, tvars>>

\* _port_thread_start without the chSysUnlock().
ThreadStartLocked ==
  /\ Running("start")
  /\ tstack' = SetTop(currp, "user")
  /\ r0' = [r0 EXCEPT ![currp] = [fn |-> StartCtx(currp).r4,
                                  arg |-> StartCtx(currp).r5]]
  /\ UNCHANGED <<swvars, mode, lk, isr, pendsv, currp, rlist, tstate, sem, readySeq,
                 irqCtx, tvars>>

\* _port_thread_start: chSysUnlock(), then the function in r4 is called with
\* r5 as its argument.
PortThreadStart ==
  /\ Running("start")
  /\ lk' = PortUnlock(lk)
  /\ tstack' = SetTop(currp, "user")
  /\ r0' = [r0 EXCEPT ![currp] = [fn |-> StartCtx(currp).r4,
                                  arg |-> StartCtx(currp).r5]]
  /\ UNCHANGED <<swvars, mode, isr, pendsv, currp, rlist, tstate, sem, readySeq,
                 irqCtx, tvars>>

(***************************************************************************)
(* Thread-level kernel calls.  Each is the locked section of the call up   *)
(* to its chSysUnlock(); the thread that executed it continues, when it    *)
(* runs again, at that chSysUnlock() (frame "fin_unlock").                 *)
(***************************************************************************)
\* The first thread-level step after an interrupt: it is recorded when the
\* thread the interrupt was taken from makes it although a more urgent
\* thread was made ready.
UserStep ==
  irqCtx' = IF irqCtx.on /\ irqCtx.thr = currp /\ HigherWoken(irqCtx) # {}
            THEN [irqCtx EXCEPT !.ran = TRUE]
            ELSE IrqOff

\* chSemWait up to its chSysUnlock().
ThdSemWait ==
  /\ Running("user")
  /\ currp # IDLE
  /\ UserStep
  /\ lk' = PortLock(lk)
  /\ tstack' = SetTop(currp, "fin_unlock")
  /\ IF sem.cnt - 1 < 0
     THEN /\ sem' = [cnt |-> sem.cnt - 1, queue |-> PrioInsert(sem.queue, currp),
                      seq |-> Append(sem.seq, currp)]
          /\ SchedTo(chSchGoSleepS(Sched, "WTSEM"))
     ELSE /\ sem' = [sem EXCEPT !.cnt = sem.cnt - 1]
          /\ SchedTo(Sched)
  /\ UNCHANGED <<swvars, mode, isr, pendsv, r0, tvars>>

\* chSemSignal up to its chSysUnlock().
ThdSemSignal ==
  /\ Running("user")
  /\ currp # IDLE
  /\ sem.cnt < MaxSem
  /\ UserStep
  /\ lk' = PortLock(lk)
  /\ tstack' = SetTop(currp, "fin_unlock")
  /\ LET x == chSemSignalI([s |-> sem, k |-> Sched])
     IN /\ sem' = x.s
        /\ SchedTo(chSchRescheduleS(x.k))
  /\ UNCHANGED <<swvars, mode, isr, pendsv, r0, tvars>>

\* chThdCreateStatic up to its chSysUnlock(): the new thread's first context
\* resumes at _port_thread_start.
ThdCreate(n) ==
  /\ Running("user")
  /\ currp # IDLE
  /\ tstate[n] = "UNINIT"
  /\ UserStep
  /\ lk' = PortLock(lk)
  /\ tstack' = [SetTop(currp, "fin_unlock") EXCEPT ![n] = <<"start">>]
  /\ SchedTo(chSchWakeupS(Sched, n))
  /\ UNCHANGED <<swvars, mode, isr, pendsv, sem, r0, tvars>>

\* The entry function returns into _port_thread_start, which calls
\* chThdExit(): the thread leaves the processor for good.
ThdExit ==
  /\ Running("user")
  /\ r0[currp] # NoCall
  /\ currp # IDLE
  /\ UserStep
  /\ lk' = PortLock(lk)
  /\ tstack' = SetTop(currp, "exit")
  /\ SchedTo(chSchGoSleepS(Sched, "FINAL"))
  /\ UNCHANGED <<swvars, mode, isr, pendsv, sem, r0, tvars>>

\* The chSysUnlock() that ends a kernel call.
ThdUnlock ==
  /\ Running("fin_unlock")
  /\ lk' = PortUnlock(lk)
  /\ tstack' = SetTop(currp, "user")
  /\ UNCHANGED <<swvars, mode, isr, pendsv, currp, rlist, tstate, sem, readySeq,
                 irqCtx, r0, tvars>>

(***************************************************************************)
(* Events.  One thread listens to the inserted_event and removed_event     *)
(* sources of MMC driver evt.src (0: nobody listens), each source with a   *)
(* flag of its own, named after it.  pending are the listener's pending    *)
(* flags, wmask the mask of its wait in progress, ret the flags that wait  *)
(* returns.                                                                *)
(***************************************************************************)
Flags == {"inserted", "removed"}

\* broadcast from a handler, on a pair [e, k] of listener and scheduler
\* records: the flag becomes pending for the listener, which is made ready
\* when it waits for it.
chEvtBroadcastI(x, d, f) ==
  IF x.e.src # d THEN x
  ELSE [e |-> [x.e EXCEPT !.pending = @ \cup {f}],
        k |-> IF x.k.tstate[x.e.thr] = "WTOREVT" /\ f \in x.e.wmask
              THEN chSchReadyI(x.k, x.e.thr) ELSE x.k]

\* wait(mask) up to the point where the caller has its flags or is blocked.
EvtWait(mask) ==
  /\ Running("user")
  /\ evt.src # 0
  /\ currp = evt.thr
  /\ UserStep
  /\ lk' = PortLock(lk)
  /\ IF evt.pending \cap mask # {}
     THEN /\ evt' = [evt EXCEPT !.ret = evt.pending \cap mask,
                                !.pending = @ \ mask,
                                !.wmask = mask]
          /\ tstack' = SetTop(currp, "evt_unlock")
          /\ SchedTo(Sched)
     ELSE /\ evt' = [evt EXCEPT !.wmask = mask]
          /\ tstack' = SetTop(currp, "evt_wake")
          /\ SchedTo(chSchGoSleepS(Sched, "WTOREVT"))
  /\ UNCHANGED <<swvars, mode, isr, pendsv, sem, r0, vtlist, mmc, vtmon, bus, call,
                 dvars>>

\* wait(mask), the caller switched in again: it takes its flags in the
\* locked section it was woken into.
EvtWaitWake ==
  /\ Running("evt_wake")
  /\ evt' = [evt EXCEPT !.ret = evt.pending \cap evt.wmask,
                        !.pending = @ \ evt.wmask]
  /\ tstack' = SetTop(currp, "evt_unlock")
  /\ UNCHANGED <<swvars, mode, lk, isr, pendsv, currp, rlist, tstate, sem, readySeq,
                 irqCtx, r0, vtlist, mmc, vtmon, bus, call,
                 dvars>>

\* The chSysUnlock() and return of wait(mask).
EvtWaitReturn ==
  /\ Running("evt_unlock")
  /\ lk' = PortUnlock(lk)
  /\ tstack' = SetTop(currp, "user")
  /\ evt' = [evt EXCEPT !.ret = {}, !.wmask = {}]
  /\ UNCHANGED <<swvars, mode, isr, pendsv, currp, rlist, tstate, sem, readySeq,
                 irqCtx, r0, vtlist, mmc, vtmon, bus, call,
                 dvars>>

(***************************************************************************)
(* Virtual timers and the MMC insertion monitor.                           *)
(***************************************************************************)
NDrivers == 2        \* MMC drivers
PollInterval == 2    \* MMC_POLLING_INTERVAL
PollTicks == 2       \* MS2ST(MMC_POLLING_DELAY)

Drivers == 1..NDrivers

\* armTimer: the timer is queued before the first timer that does not
\* expire earlier, its delay re-expressed relative to its neighbours.
RECURSIVE VTInsert(_, _, _)
VTInsert(l, id, time) ==
  IF l = <<>> THEN << [id |-> id, delta |-> time] >>
  ELSE IF Head(l).delta < time
       THEN <<Head(l)>> \o VTInsert(Tail(l), id, time - Head(l).delta)
       ELSE << [id |-> id, delta |-> time],
               [Head(l) EXCEPT !.delta = @ - time] >> \o Tail(l)

\* An insertion at the head that leaves the other delays alone.
VTSetAtHead(l, id, time) == << [id |-> id, delta |-> time] >> \o l

chVTSetI(l, id, time) == VTInsert(l, id, time)

Armed(l, id) == \E i \in DOMAIN l : l[i].id = id

\* cancelTimer: the delay of the timer removed goes to its successor; a
\* timer that is not armed is left alone.
RECURSIVE VTRemove(_, _)
VTRemove(l, id) ==
  IF l = <<>> THEN l
  ELSE IF Head(l).id = id
       THEN IF Tail(l) = <<>> THEN <<>>
            ELSE << [Head(Tail(l)) EXCEPT !.delta = @ + Head(l).delta] >>
                 \o Tail(Tail(l))
       ELSE <<Head(l)>> \o VTRemove(Tail(l), id)

chVTResetI(l, id) == VTRemove(l, id)

\* The record of what was asked of the timers.  due[id] is the number of
\* ticks after which timer id is to fire, -1 when it is not armed; err
\* records a callback invoked for a timer that was not due; run[id] is the
\* number of polls in a row in which driver id, in MMC_WAIT, has seen the
\* card present, and last[id] what its last poll saw.
VTMonOff ==
  [due |-> [d \in Drivers |-> -1], err |-> FALSE, run |-> [d \in Drivers |-> 0],
   last |-> [d \in Drivers |-> FALSE]]

MonPoll(m, id, st, inserted) ==
  [m EXCEPT !.run[id] = IF st = "MMC_WAIT" /\ inserted
                        THEN (IF @ > PollInterval THEN @ ELSE @ + 1)
                        ELSE 0,
            !.last[id] = inserted]

MonArm(m, id, time) == [m EXCEPT !.due[id] = time]
MonCancel(m, id) == [m EXCEPT !.due[id] = -1]
MonTick(m) == [m EXCEPT !.due = [d \in DOMAIN @ |-> IF @[d] > 0 THEN @[d] - 1 ELSE @[d]]]
MonFire(m, id) == [m EXCEPT !.due[id] = -1, !.err = @ \/ m.due[id] # 0]

\* chSysTimerHandlerI on a tick: the delay of the first timer is decremented.
SysTickTimerHandler ==
  /\ InHandler("tick", "h1")
  /\ vtlist' = IF vtlist = <<>> THEN vtlist
               ELSE [vtlist EXCEPT ![1].delta = @ - 1]
  /\ vtmon' = MonTick(vtmon)
  /\ isr' = Goto("h1p")
  /\ UNCHANGED <<swvars, mode, lk, pendsv, currp, rlist, tstate, tstack, sem,
                 readySeq, irqCtx, r0, mmc, bvars, dvars>>

\* chSysTimerHandlerI: while the first timer has expired it is removed and
\* its callback invoked.
VTDoTick ==
  /\ InHandler("tick", "h1p")
  /\ IF vtlist # <<>> /\ Head(vtlist).delta = 0
     THEN /\ vtlist' = Tail(vtlist)
          /\ vtmon' = MonFire(vtmon, Head(vtlist).id)
          /\ isr' = [isr EXCEPT ![Len(isr)] =
                       [irq |-> "tick", pc |-> "cb0", cb |-> Head(vtlist).id]]
     ELSE /\ vtlist' = vtlist
          /\ vtmon' = vtmon
          /\ isr' = Goto("h2")
  /\ UNCHANGED <<swvars, mode, lk, pendsv, currp, rlist, tstate, tstack, sem,
                 readySeq, irqCtx, r0, mmc, bvars, dvars>>

\* tmrfunc: chSysLockFromIsr().
TmrfuncLock ==
  /\ InHandler("tick", "cb0")
  /\ lk' = PortLock(lk)
  /\ isr' = Goto("cb1")
  /\ UNCHANGED <<swvars, mode, pendsv, currp, rlist, tstate, tstack, sem,
                 readySeq, irqCtx, r0, tvars>>

\* tmrfunc whose removal sets MMC_WAIT and leaves the countdown at zero.
PollRemovalNoCount(m, inserted) ==
  IF m.cnt > 0
  THEN IF inserted
       THEN IF m.cnt - 1 = 0
            THEN [state |-> "MMC_INSERTED", cnt |-> 0, ev |-> "inserted"]
            ELSE [m EXCEPT !.cnt = m.cnt - 1]
       ELSE [m EXCEPT !.cnt = PollInterval]
  ELSE IF ~inserted
       THEN [state |-> "MMC_WAIT", cnt |-> 0, ev |-> "removed"]
       ELSE m

\* tmrfunc whose countdown is not started again by a poll that sees no card.
PollNoRestart(m, inserted) ==
  IF m.cnt > 0
  THEN IF inserted
       THEN IF m.cnt - 1 = 0
            THEN [state |-> "MMC_INSERTED", cnt |-> 0, ev |-> "inserted"]
            ELSE [m EXCEPT !.cnt = m.cnt - 1]
       ELSE m
  ELSE IF ~inserted
       THEN [state |-> "MMC_WAIT", cnt |-> PollInterval, ev |-> "removed"]
       ELSE m

\* tmrfunc between its lock and unlock: the debounce counter, the driver
\* state, the event broadcast and the timer armed again.
Poll(m, inserted) ==
  IF m.cnt > 0
  THEN IF inserted
       THEN IF m.cnt - 1 = 0
            THEN [state |-> "MMC_INSERTED", cnt |-> 0, ev |-> "inserted"]
            ELSE [m EXCEPT !.cnt = m.cnt - 1]
       ELSE [m EXCEPT !.cnt = PollInterval]
  ELSE IF ~inserted
       THEN [state |-> "MMC_WAIT", cnt |-> PollInterval, ev |-> "removed"]
       ELSE m

\* A mmcConnect on driver d is between its test for MMC_INSERTED and its
\* final locked check.
InHandshake(d) ==
  /\ call.fn = "connect"
  /\ call.d = d
  /\ call.ret = "none"
  /\ call.entry = "MMC_INSERTED"

\* A sequential-transfer call on driver d is between its entry check, which
\* found the state it expects, and its return.
InTransfer(d) ==
  /\ call.fn \in {"startread", "read", "stopread", "startwrite", "write", "stopwrite"}
  /\ call.d = d
  /\ call.ret = "none"

\* A tmrfunc that broadcasts on neither event source.
PollEventNone(m, inserted) == "none"

\* The event source tmrfunc broadcasts on, "none" when it does not.
PollEvent(m, inserted) ==
  IF m.cnt > 0
  THEN IF inserted /\ m.cnt - 1 = 0 THEN "inserted" ELSE "none"
  ELSE IF ~inserted THEN "removed" ELSE "none"

TmrfuncBody(inserted) ==
  /\ InHandler("tick", "cb1")
  /\ mmc' = [mmc EXCEPT ![Handler.cb] = Poll(@, inserted)]
  /\ LET f == PollEvent(mmc[Handler.cb], inserted)
         x == IF f = "none" THEN [e |-> evt, k |-> Sched]
              ELSE chEvtBroadcastI([e |-> evt, k |-> Sched], Handler.cb, f)
     IN /\ evt' = x.e
        /\ SchedTo(x.k)
        /\ irqCtx' = [irqCtx EXCEPT !.woke = @ \cup x.k.woke]
        /\ call' = IF f = "removed" /\ (InHandshake(Handler.cb) \/ InTransfer(Handler.cb))
                   THEN [call EXCEPT !.seen = TRUE] ELSE call
  /\ vtlist' = chVTSetI(vtlist, Handler.cb, PollTicks)
  /\ vtmon' = MonPoll(MonArm(vtmon, Handler.cb, PollTicks), Handler.cb,
                      mmc[Handler.cb].state, inserted)
  /\ isr' = Goto("cb2")
  /\ UNCHANGED <<swvars, mode, lk, pendsv, tstack, sem, r0, bus,
                 dvars>>

\* tmrfunc: chSysUnlockFromIsr(), and the return to chSysTimerHandlerI.
TmrfuncUnlock ==
  /\ InHandler("tick", "cb2")
  /\ lk' = PortUnlock(lk)
  /\ isr' = Goto("h1p")
  /\ UNCHANGED <<swvars, mode, pendsv, currp, rlist, tstate, tstack, sem,
                 readySeq, irqCtx, r0, tvars>>

\* mmcStart that leaves the countdown as it finds it.
mmcStartNoCount(d) ==
  /\ Running("user")
  /\ mmc[d].state = "MMC_STOP"
  /\ UserStep
  /\ lk' = PortLock(lk)
  /\ tstack' = SetTop(currp, "fin_unlock")
  /\ mmc' = [mmc EXCEPT ![d] = [state |-> "MMC_WAIT", cnt |-> mmc[d].cnt,
                                ev |-> "none"]]
  /\ vtlist' = chVTSetI(vtlist, d, PollTicks)
  /\ vtmon' = MonPoll(MonArm(vtmon, d, PollTicks), d, "MMC_STOP", FALSE)
  /\ UNCHANGED <<swvars, mode, isr, pendsv, currp, rlist, tstate, sem, readySeq, r0,
                 bvars, dvars>>

\* mmcStart up to its chSysUnlock().
mmcStart(d) ==
  /\ Running("user")
  /\ mmc[d].state = "MMC_STOP"
  /\ UserStep
  /\ lk' = PortLock(lk)
  /\ tstack' = SetTop(currp, "fin_unlock")
  /\ mmc' = [mmc EXCEPT ![d] = [state |-> "MMC_WAIT", cnt |-> PollInterval,
                                ev |-> "none"]]
  /\ vtlist' = chVTSetI(vtlist, d, PollTicks)
  /\ vtmon' = MonPoll(MonArm(vtmon, d, PollTicks), d, "MMC_STOP", FALSE)
  /\ UNCHANGED <<swvars, mode, isr, pendsv, currp, rlist, tstate, sem, readySeq, r0,
                 bvars, dvars>>

\* mmcStop that leaves the polling timer armed.
mmcStopNoReset(d) ==
  /\ Running("user")
  /\ mmc[d].state \in {"MMC_STOP", "MMC_WAIT", "MMC_INSERTED", "MMC_READY"}
  /\ UserStep
  /\ lk' = PortLock(lk)
  /\ tstack' = SetTop(currp, "fin_unlock")
  /\ IF mmc[d].state # "MMC_STOP"
     THEN /\ mmc' = [mmc EXCEPT ![d].state = "MMC_STOP"]
          /\ vtmon' = MonCancel(vtmon, d)
     ELSE UNCHANGED <<mmc, vtmon,
                 dvars>>
  /\ UNCHANGED <<swvars, mode, isr, pendsv, currp, rlist, tstate, sem, readySeq, r0,
                 vtlist, bvars, dvars>>

\* mmcStop up to its chSysUnlock().
mmcStop(d) ==
  /\ Running("user")
  /\ mmc[d].state \in {"MMC_STOP", "MMC_WAIT", "MMC_INSERTED", "MMC_READY"}
  /\ UserStep
  /\ lk' = PortLock(lk)
  /\ tstack' = SetTop(currp, "fin_unlock")
  /\ IF mmc[d].state # "MMC_STOP"
     THEN /\ mmc' = [mmc EXCEPT ![d].state = "MMC_STOP"]
          /\ vtlist' = chVTResetI(vtlist, d)
          /\ vtmon' = MonCancel(vtmon, d)
     ELSE UNCHANGED <<mmc, vtlist, vtmon,
                 dvars>>
  /\ UNCHANGED <<swvars, mode, isr, pendsv, currp, rlist, tstate, sem, readySeq, r0,
                 bvars, dvars>>

(***************************************************************************)
(* mmcConnect and mmcDisconnect.  call records the call in progress or the *)
(* last one made: the driver, the calling thread, the driver state the     *)
(* call read first (entry), whether tmrfunc reported the card removed      *)
(* while the call was in progress (seen), the value returned (ret, "none"  *)
(* while the call is in progress), whether the call made an SPI operation  *)
(* (spiop) and where it continues after the chSysUnlock() of a locked      *)
(* section (next).  One call is made at a time.                            *)
(***************************************************************************)
CallIdle == call.fn = "none" \/ call.ret # "none"

NewCall(fn, d) == [fn |-> fn, d |-> d, thr |-> currp, entry |-> mmc[d].state,
                   seen |-> FALSE, ret |-> "none", spiop |-> FALSE,
                   next |-> "user", addr |-> "none"]

\* mmcConnect: the assertion and the test for MMC_INSERTED.
mmcConnect(d) ==
  /\ Running("user")
  /\ currp # IDLE
  /\ CallIdle
  /\ mmc[d].state # "MMC_STOP"
  /\ UserStep
  /\ call' = NewCall("connect", d)
  /\ tstack' = SetTop(currp, IF mmc[d].state = "MMC_INSERTED" THEN "conn_hs"
                                                              ELSE "conn_rd")
  /\ UNCHANGED <<swvars, mode, lk, isr, pendsv, currp, rlist, tstate, sem, readySeq,
                 r0, vtlist, mmc, vtmon, bus, evt,
                 dvars>>

\* mmcConnect: the commands sent to the card, from CMD0 to SETBLOCKLEN, each
\* between spiSelect and spiUnselect.  The card answers as expected (ok) or
\* the call gives up and returns TRUE.
ConnectHandshake(ok) ==
  /\ Running("conn_hs")
  /\ UserStep
  /\ IF ok
     THEN /\ tstack' = SetTop(currp, "conn_chk")
          /\ call' = [call EXCEPT !.spiop = TRUE]
     ELSE /\ tstack' = SetTop(currp, "user")
          /\ call' = [call EXCEPT !.ret = "TRUE", !.spiop = TRUE]
  /\ spi' = [spi EXCEPT !.sel = FALSE]
  /\ UNCHANGED <<swvars, mode, lk, isr, pendsv, currp, rlist, tstate, sem, readySeq,
                 r0, vtlist, mmc, vtmon, bus, evt, hs, i2c>>

\* The locked section of mmcConnect without its test of the state.
ConnectCheckBlind ==
  /\ Running("conn_chk")
  /\ UserStep
  /\ lk' = PortLock(lk)
  /\ tstack' = SetTop(currp, "fin_unlock")
  /\ mmc' = [mmc EXCEPT ![call.d].state = "MMC_READY"]
  /\ call' = [call EXCEPT !.ret = "FALSE"]
  /\ UNCHANGED <<swvars, mode, isr, pendsv, currp, rlist, tstate, sem, readySeq,
                 r0, vtlist, vtmon, bus, evt, dvars>>

\* mmcConnect: the transition to MMC_READY in its locked section, up to the
\* chSysUnlock().
ConnectCheck ==
  /\ Running("conn_chk")
  /\ UserStep
  /\ lk' = PortLock(lk)
  /\ tstack' = SetTop(currp, "fin_unlock")
  /\ IF mmc[call.d].state = "MMC_INSERTED"
     THEN /\ mmc' = [mmc EXCEPT ![call.d].state = "MMC_READY"]
          /\ call' = [call EXCEPT !.ret = "FALSE"]
     ELSE /\ mmc' = mmc
          /\ call' = [call EXCEPT !.ret = "TRUE"]
  /\ UNCHANGED <<swvars, mode, isr, pendsv, currp, rlist, tstate, sem, readySeq,
                 r0, vtlist, vtmon, bus, evt,
                 dvars>>

\* mmcConnect, the driver was not in MMC_INSERTED: the test for MMC_READY.
ConnectNotInserted ==
  /\ Running("conn_rd")
  /\ UserStep
  /\ tstack' = SetTop(currp, "user")
  /\ call' = [call EXCEPT !.ret = IF mmc[call.d].state = "MMC_READY"
                                  THEN "FALSE" ELSE "TRUE"]
  /\ UNCHANGED <<swvars, mode, lk, isr, pendsv, currp, rlist, tstate, sem, readySeq,
                 r0, vtlist, mmc, vtmon, bus, evt,
                 dvars>>

\* The switch of mmcDisconnect: the labels in their order, each with the
\* value the statements under it assign to status ("keep": none) and whether
\* they end with a break.  No case of this switch does.
DisconnectCases ==
  << [label |-> "MMC_READY", status |-> "keep", brk |-> FALSE],
     [label |-> "MMC_INSERTED", status |-> "FALSE", brk |-> FALSE],
     [label |-> "default", status |-> "TRUE", brk |-> FALSE] >>

\* The label the switch jumps to.
SwitchLabel(cases, st) ==
  IF \E i \in DOMAIN cases : cases[i].label = st
  THEN CHOOSE i \in DOMAIN cases : cases[i].label = st
  ELSE CHOOSE i \in DOMAIN cases : cases[i].label = "default"

\* status after the statements from case i on, up to the first break.
RECURSIVE RunCases(_, _, _)
RunCases(cases, i, status) ==
  IF i > Len(cases) THEN status
  ELSE LET s == IF cases[i].status = "keep" THEN status ELSE cases[i].status
       IN IF cases[i].brk THEN s ELSE RunCases(cases, i + 1, s)

\* The value mmcDisconnect returns when its switch read state st.
DisconnectStatus(st) ==
  RunCases(DisconnectCases, SwitchLabel(DisconnectCases, st), "unset")

\* mmcDisconnect: the assertion and the switch on the state.  In MMC_READY
\* the pending writes are waited for first; in any other state the call
\* returns.
mmcDisconnect(d) ==
  /\ Running("user")
  /\ currp # IDLE
  /\ CallIdle
  /\ mmc[d].state # "MMC_STOP"
  /\ UserStep
  /\ IF mmc[d].state = "MMC_READY"
     THEN /\ call' = NewCall("disconnect", d)
          /\ tstack' = SetTop(currp, "disc_sync")
     ELSE /\ call' = [NewCall("disconnect", d) EXCEPT
                        !.ret = DisconnectStatus(mmc[d].state),
                        !.spiop = TRUE]
          /\ tstack' = tstack
  /\ UNCHANGED <<swvars, mode, lk, isr, pendsv, currp, rlist, tstate, sem, readySeq,
                 r0, vtlist, mmc, vtmon, bus, evt,
                 dvars>>

\* mmcDisconnect in MMC_READY, after sync(), which ends with spiUnselect: the
\* locked section that brings
\* the driver back to MMC_INSERTED, up to its chSysUnlock(); the statements
\* of the cases below follow.
DisconnectLocked ==
  /\ Running("disc_sync")
  /\ UserStep
  /\ lk' = PortLock(lk)
  /\ tstack' = SetTop(currp, "fin_unlock")
  /\ mmc' = IF mmc[call.d].state = "MMC_READY"
            THEN [mmc EXCEPT ![call.d].state = "MMC_INSERTED"]
            ELSE mmc
  /\ call' = [call EXCEPT !.ret = DisconnectStatus(call.entry), !.spiop = TRUE]
  /\ spi' = [spi EXCEPT !.sel = FALSE]
  /\ UNCHANGED <<swvars, mode, isr, pendsv, currp, rlist, tstate, sem, readySeq,
                 r0, vtlist, vtmon, bus, evt, hs, i2c>>

(***************************************************************************)
(* Sequential transfers.  op is "read" or "write".  Every function starts  *)
(* with a locked section that tests the driver state; the functions that   *)
(* go on continue after its chSysUnlock() at the frame in call.next.       *)
(***************************************************************************)
Transfer(op) == IF op = "read" THEN "MMC_READING" ELSE "MMC_WRITING"

OpOf(fn) == IF fn \in {"startread", "read", "stopread"} THEN "read" ELSE "write"

\* The chSysUnlock() of a locked section inside a call.
CallUnlock ==
  /\ Running("call_unlock")
  /\ lk' = PortUnlock(lk)
  /\ tstack' = SetTop(currp, call.next)
  /\ UNCHANGED <<swvars, mode, isr, pendsv, currp, rlist, tstate, sem, readySeq,
                 irqCtx, r0, tvars>>

\* An entry section that tests nothing and goes on in every state.
EntryNoCheck(fn, d, to, cont) ==
  /\ Running("user")
  /\ currp # IDLE
  /\ CallIdle
  /\ UserStep
  /\ lk' = PortLock(lk)
  /\ tstack' = SetTop(currp, "call_unlock")
  /\ call' = [NewCall(fn, d) EXCEPT !.next = cont]
  /\ mmc' = [mmc EXCEPT ![d].state = to]
  /\ UNCHANGED <<swvars, mode, isr, pendsv, currp, rlist, tstate, sem, readySeq,
                 r0, vtlist, vtmon, bus, evt, dvars>>

\* The entry section of a sequential-transfer function: in a state other
\* than expect the function returns TRUE after the chSysUnlock(); otherwise
\* the state becomes to and the function continues at cont.
Entry(fn, d, expect, to, cont) ==
  /\ Running("user")
  /\ currp # IDLE
  /\ CallIdle
  /\ UserStep
  /\ lk' = PortLock(lk)
  /\ tstack' = SetTop(currp, "call_unlock")
  /\ IF mmc[d].state # expect
     THEN /\ call' = [NewCall(fn, d) EXCEPT !.ret = "TRUE"]
          /\ mmc' = mmc
     ELSE /\ call' = [NewCall(fn, d) EXCEPT !.next = cont]
          /\ mmc' = [mmc EXCEPT ![d].state = to]
  /\ UNCHANGED <<swvars, mode, isr, pendsv, currp, rlist, tstate, sem, readySeq,
                 r0, vtlist, vtmon, bus, evt, dvars>>

mmcStartSequentialRead(d) ==
  Entry("startread", d, "MMC_READY", "MMC_READING", "seq_cmd")

mmcStartSequentialWrite(d) ==
  Entry("startwrite", d, "MMC_READY", "MMC_WRITING", "seq_cmd")

\* mmcSequentialRead without the test of its entry section.
SequentialReadNoCheck(d) ==
  EntryNoCheck("read", d, "MMC_READING", "seq_data")

mmcSequentialRead(d) ==
  Entry("read", d, "MMC_READING", "MMC_READING", "seq_data")

mmcSequentialWrite(d) ==
  Entry("write", d, "MMC_WRITING", "MMC_WRITING", "seq_data")

mmcStopSequentialRead(d) ==
  Entry("stopread", d, "MMC_READING", "MMC_READING", "seq_stop")

mmcStopSequentialWrite(d) ==
  Entry("stopwrite", d, "MMC_WRITING", "MMC_WRITING", "seq_stop")

\* The argument of the command that starts a transfer: the block number
\* when block_addresses is set, else startblk * MMC_SECTOR_SIZE.
StartAddress(block_addresses) == IF block_addresses THEN "block" ELSE "byte"

\* mmcStartSequentialRead/Write after the entry section: the slave is
\* selected and the command sent; when the card does not answer 0x00 the
\* slave is unselected and the function goes to its failure section.
SeqCommand(ok) ==
  /\ Running("seq_cmd")
  /\ UserStep
  /\ spi' = [spi EXCEPT !.sel = ok]
  /\ IF ok
     THEN /\ call' = [call EXCEPT !.ret = "FALSE", !.spiop = TRUE,
                                  !.addr = StartAddress(hs.ba)]
          /\ tstack' = SetTop(currp, "user")
     ELSE /\ call' = [call EXCEPT !.spiop = TRUE, !.addr = StartAddress(hs.ba)]
          /\ tstack' = SetTop(currp, "seq_back")
  /\ UNCHANGED <<swvars, mode, lk, isr, pendsv, currp, rlist, tstate, sem, readySeq,
                 r0, vtlist, mmc, vtmon, bus, evt, hs, i2c>>

\* mmcSequentialRead/Write after the entry section: the block is
\* transferred, or (data token not seen, data not accepted) the slave is
\* unselected and the function goes to its failure section.
SeqData(ok) ==
  /\ Running("seq_data")
  /\ UserStep
  /\ IF ok
     THEN /\ call' = [call EXCEPT !.ret = "FALSE", !.spiop = TRUE]
          /\ tstack' = SetTop(currp, "user")
          /\ spi' = spi
     ELSE /\ call' = [call EXCEPT !.spiop = TRUE]
          /\ tstack' = SetTop(currp, "seq_back")
          /\ spi' = [spi EXCEPT !.sel = FALSE]
  /\ UNCHANGED <<swvars, mode, lk, isr, pendsv, currp, rlist, tstate, sem, readySeq,
                 r0, vtlist, mmc, vtmon, bus, evt, hs, i2c>>

\* The failure section of the start and transfer functions: back to
\* MMC_READY if the state is still the transfer state; TRUE is returned.
SeqBack ==
  /\ Running("seq_back")
  /\ UserStep
  /\ lk' = PortLock(lk)
  /\ tstack' = SetTop(currp, "call_unlock")
  /\ mmc' = IF mmc[call.d].state = Transfer(OpOf(call.fn))
            THEN [mmc EXCEPT ![call.d].state = "MMC_READY"]
            ELSE mmc
  /\ call' = [call EXCEPT !.ret = "TRUE", !.next = "user"]
  /\ UNCHANGED <<swvars, mode, isr, pendsv, currp, rlist, tstate, sem, readySeq,
                 r0, vtlist, vtmon, bus, evt, dvars>>

\* mmcStopSequentialRead/Write after the entry section: the stop command is
\* sent and the slave unselected.
SeqStopCommand ==
  /\ Running("seq_stop")
  /\ UserStep
  /\ spi' = [spi EXCEPT !.sel = FALSE]
  /\ call' = [call EXCEPT !.spiop = TRUE]
  /\ tstack' = SetTop(currp, "seq_end")
  /\ UNCHANGED <<swvars, mode, lk, isr, pendsv, currp, rlist, tstate, sem, readySeq,
                 r0, vtlist, mmc, vtmon, bus, evt, hs, i2c>>

\* The value a stop function returns when its final section finds state st:
\* mmcStopSequentialRead returns the result it set before the section,
\* mmcStopSequentialWrite returns FALSE only from the branch that changes
\* the state.
StopResult(op, st) ==
  IF op = "read" THEN "FALSE"
  ELSE IF st = "MMC_WRITING" THEN "FALSE" ELSE "TRUE"

\* The final section of the stop functions.
SeqStopEnd ==
  /\ Running("seq_end")
  /\ UserStep
  /\ lk' = PortLock(lk)
  /\ tstack' = SetTop(currp, "call_unlock")
  /\ mmc' = IF mmc[call.d].state = Transfer(OpOf(call.fn))
            THEN [mmc EXCEPT ![call.d].state = "MMC_READY"]
            ELSE mmc
  /\ call' = [call EXCEPT !.ret = StopResult(OpOf(call.fn), mmc[call.d].state),
                          !.next = "user"]
  /\ UNCHANGED <<swvars, mode, isr, pendsv, currp, rlist, tstate, sem, readySeq,
                 r0, vtlist, vtmon, bus, evt, dvars>>

(***************************************************************************)
(* The mutex and the I2C bus lock.  The driver guards the bus with a mutex *)
(* when the kernel has mutexes and with a semaphore initialised to 1       *)
(* otherwise.  inbus[t] counts the calls of i2cAcquireBus thread t has     *)
(* returned from and not yet answered with i2cReleaseBus.                  *)
(***************************************************************************)
MaxNest == 2         \* calls of i2cAcquireBus a thread makes before releasing

NoOwner == -1

\* A lock that queues the caller also when it owns the mutex.
MtxLockNoNesting(x) ==
  IF x.m.owner = NoOwner
  THEN [m |-> [x.m EXCEPT !.owner = x.k.currp, !.cnt = 1], k |-> x.k]
  ELSE [m |-> [x.m EXCEPT !.queue = PrioInsert(@, x.k.currp)],
        k |-> chSchGoSleepS(x.k, "WTMTX")]

\* lock, on a pair [m, k] of mutex and scheduler records: the caller becomes
\* the owner, or nests when it is the owner, or waits.
chMtxLockS(x) ==
  IF x.m.owner = NoOwner
  THEN [m |-> [x.m EXCEPT !.owner = x.k.currp, !.cnt = 1], k |-> x.k]
  ELSE IF x.m.owner = x.k.currp
       THEN [m |-> [x.m EXCEPT !.cnt = @ + 1], k |-> x.k]
       ELSE [m |-> [x.m EXCEPT !.queue = PrioInsert(@, x.k.currp)],
             k |-> chSchGoSleepS(x.k, "WTMTX")]

\* unlock by the owner: the last of the nested unlocks hands the mutex to
\* the first waiter.
chMtxUnlockS(x) ==
  IF x.m.cnt > 1
  THEN [m |-> [x.m EXCEPT !.cnt = @ - 1], k |-> x.k]
  ELSE IF x.m.queue = <<>>
       THEN [m |-> [x.m EXCEPT !.owner = NoOwner, !.cnt = 0], k |-> x.k]
       ELSE [m |-> [owner |-> Head(x.m.queue), cnt |-> 1,
                    queue |-> Tail(x.m.queue)],
             k |-> chSchWakeupS(x.k, Head(x.m.queue))]

\* wait, on a pair [s, k] of semaphore and scheduler records.
chSemWaitS(x) ==
  IF x.s.cnt - 1 < 0
  THEN [s |-> [cnt |-> x.s.cnt - 1, queue |-> PrioInsert(x.s.queue, x.k.currp),
               seq |-> Append(x.s.seq, x.k.currp)],
        k |-> chSchGoSleepS(x.k, "WTSEM")]
  ELSE [s |-> [x.s EXCEPT !.cnt = @ - 1], k |-> x.k]

\* signal from a thread.
chSemSignalS(x) ==
  LET y == chSemSignalI(x) IN [s |-> y.s, k |-> chSchRescheduleS(y.k)]

\* i2cObjectInit: chMtxInit, or chSemInit with 1.  The record holds a second
\* driver object (omtx, osem, inoth) initialised in the same way, and for
\* every thread the mutexes it owns, in the order in which it locked them.
i2cObjectInit(build) ==
  [build |-> build,
   mtx |-> [owner |-> NoOwner, cnt |-> 0, queue |-> <<>>],
   sem |-> [cnt |-> 1, queue |-> <<>>, seq |-> <<>>],
   inbus |-> [t \in Threads |-> 0],
   omtx |-> [owner |-> NoOwner, cnt |-> 0, queue |-> <<>>],
   osem |-> [cnt |-> 1, queue |-> <<>>, seq |-> <<>>],
   inoth |-> [t \in Threads |-> 0],
   owned |-> [t \in Threads |-> <<>>]]

\* The mutex of driver i2cp ("bus": the driver, "other": the second one).
MutexOf(b, i2cp) == IF i2cp = "bus" THEN b.mtx ELSE b.omtx

SetMutex(b, i2cp, m) ==
  IF i2cp = "bus" THEN [b EXCEPT !.mtx = m] ELSE [b EXCEPT !.omtx = m]

\* chMtxLock(&i2cp->id_mutex), on a pair [b, k] of bus and scheduler
\* records: a mutex the caller acquires goes on top of those it owns.
chMtxLock(x, i2cp) ==
  LET y == chMtxLockS([m |-> MutexOf(x.b, i2cp), k |-> x.k])
      b1 == SetMutex(x.b, i2cp, y.m)
  IN [b |-> IF MutexOf(x.b, i2cp).owner = NoOwner
            THEN [b1 EXCEPT !.owned[x.k.currp] = Append(@, i2cp)]
            ELSE b1,
      k |-> y.k]

\* An unlock of the mutex of driver i2cp.
MtxUnlockOf(x, i2cp) ==
  LET t == x.k.currp
      y == chMtxUnlockS([m |-> MutexOf(x.b, i2cp), k |-> x.k])
      b1 == SetMutex(x.b, i2cp, y.m)
      b2 == IF y.m.owner # t
            THEN [b1 EXCEPT !.owned[t] = SelectSeq(@, LAMBDA n : n # i2cp)]
            ELSE b1
  IN [b |-> IF y.m.owner \notin {t, NoOwner}
            THEN [b2 EXCEPT !.owned[y.m.owner] = Append(@, i2cp)]
            ELSE b2,
      k |-> y.k]

\* chMtxUnlock(), which takes no argument: the mutex unlocked is the one the
\* caller locked last.  The caller owns a mutex, which the callers of this
\* operator test for.
chMtxUnlock(x) ==
  LET own == x.b.owned[x.k.currp]
  IN MtxUnlockOf(x, own[Len(own)])

\* i2cAcquireBus that takes nothing.
AcquireBusNoLock ==
  /\ Running("user")
  /\ currp # IDLE
  /\ bus.inbus[currp] < MaxNest
  /\ UserStep
  /\ lk' = PortLock(lk)
  /\ tstack' = SetTop(currp, "acq_unlock")
  /\ UNCHANGED <<swvars, mode, isr, pendsv, currp, rlist, tstate, sem, readySeq, r0,
                 vtlist, mmc, vtmon, bvars, dvars>>

\* i2cAcquireBus up to the chSysUnlock() of chMtxLock or chSemWait.
i2cAcquireBus ==
  /\ Running("user")
  /\ currp # IDLE
  /\ bus.inbus[currp] < MaxNest
  /\ UserStep
  /\ lk' = PortLock(lk)
  /\ tstack' = SetTop(currp, "acq_unlock")
  /\ IF bus.build = "mutex"
     THEN LET x == chMtxLock([b |-> bus, k |-> Sched], "bus")
          IN /\ bus' = x.b
             /\ SchedTo(x.k)
     ELSE LET x == chSemWaitS([s |-> bus.sem, k |-> Sched])
          IN /\ bus' = [bus EXCEPT !.sem = x.s]
             /\ SchedTo(x.k)
  /\ UNCHANGED <<swvars, mode, isr, pendsv, sem, r0, vtlist, mmc, vtmon, evt, call,
                 dvars>>

\* The return of i2cAcquireBus.
AcquireBusReturn ==
  /\ Running("acq_unlock")
  /\ lk' = PortUnlock(lk)
  /\ tstack' = SetTop(currp, "user")
  /\ bus' = [bus EXCEPT !.inbus[currp] = @ + 1]
  /\ UNCHANGED <<swvars, mode, isr, pendsv, currp, rlist, tstate, sem, readySeq,
                 irqCtx, r0, vtlist, mmc, vtmon, evt, call,
                 dvars>>

\* i2cReleaseBus up to the chSysUnlock() of chMtxUnlock or chSemSignal.
i2cReleaseBus ==
  /\ Running("user")
  /\ bus.inbus[currp] > 0
  /\ bus.build = "mutex" => bus.owned[currp] # <<>>
  /\ UserStep
  /\ lk' = PortLock(lk)
  /\ tstack' = SetTop(currp, "fin_unlock")
  /\ IF bus.build = "mutex"
     THEN LET x == chMtxUnlock([b |-> bus, k |-> Sched])
          IN /\ bus' = [x.b EXCEPT !.inbus[currp] = @ - 1]
             /\ SchedTo(x.k)
     ELSE LET x == chSemSignalS([s |-> bus.sem, k |-> Sched])
          IN /\ bus' = [bus EXCEPT !.sem = x.s, !.inbus[currp] = @ - 1]
             /\ SchedTo(x.k)
  /\ UNCHANGED <<swvars, mode, isr, pendsv, sem, r0, vtlist, mmc, vtmon, evt, call,
                 dvars>>

\* i2cAcquireBus on the second driver, up to the chSysUnlock().
AcquireOther ==
  /\ Running("user")
  /\ currp # IDLE
  /\ bus.inoth[currp] = 0
  /\ UserStep
  /\ lk' = PortLock(lk)
  /\ tstack' = SetTop(currp, "oth_unlock")
  /\ IF bus.build = "mutex"
     THEN LET x == chMtxLock([b |-> bus, k |-> Sched], "other")
          IN /\ bus' = x.b
             /\ SchedTo(x.k)
     ELSE LET x == chSemWaitS([s |-> bus.osem, k |-> Sched])
          IN /\ bus' = [bus EXCEPT !.osem = x.s]
             /\ SchedTo(x.k)
  /\ UNCHANGED <<swvars, mode, isr, pendsv, sem, r0, vtlist, mmc, vtmon, evt, call,
                 dvars>>

\* The return of i2cAcquireBus on the second driver.
AcquireOtherReturn ==
  /\ Running("oth_unlock")
  /\ lk' = PortUnlock(lk)
  /\ tstack' = SetTop(currp, "user")
  /\ bus' = [bus EXCEPT !.inoth[currp] = @ + 1]
  /\ UNCHANGED <<swvars, mode, isr, pendsv, currp, rlist, tstate, sem, readySeq,
                 irqCtx, r0, vtlist, mmc, vtmon, evt, call, dvars>>

\* i2cReleaseBus on the second driver, up to the chSysUnlock().
ReleaseOther ==
  /\ Running("user")
  /\ bus.inoth[currp] > 0
  /\ bus.build = "mutex" => bus.owned[currp] # <<>>
  /\ UserStep
  /\ lk' = PortLock(lk)
  /\ tstack' = SetTop(currp, "fin_unlock")
  /\ IF bus.build = "mutex"
     THEN LET x == chMtxUnlock([b |-> bus, k |-> Sched])
          IN /\ bus' = [x.b EXCEPT !.inoth[currp] = @ - 1]
             /\ SchedTo(x.k)
     ELSE LET x == chSemSignalS([s |-> bus.osem, k |-> Sched])
          IN /\ bus' = [bus EXCEPT !.osem = x.s, !.inoth[currp] = @ - 1]
             /\ SchedTo(x.k)
  /\ UNCHANGED <<swvars, mode, isr, pendsv, sem, r0, vtlist, mmc, vtmon, evt, call,
                 dvars>>

(***************************************************************************)
(* The handshake of mmcConnect, command by command.  hs.i is the counter i  *)
(* of its loops; hs.cmd0, hs.acmd41 and hs.cmd1 count, for the call in      *)
(* progress, the CMD0, the CMD55/ACMD41 pairs and the CMD1 sent; hs.r is    *)
(* the last answer received (255: none within the reads of recvr1);         *)
(* hs.busy says that the card holds the data line low, which is what wait() *)
(* in send_hdr spins on before a command is sent.                           *)
(***************************************************************************)
Cmd0Retry == 2       \* MMC_CMD0_RETRY
Acmd41Retry == 2     \* MMC_ACMD41_RETRY
Cmd1Retry == 2       \* MMC_CMD1_RETRY
R1Tries == 9         \* the reads of recvr1

\* The answers of the card: 0x00, 0x01, 0x05.
Resp == {0, 1, 5}

\* The bytes 0xFF the card sends before its answer.
Delays == {0, R1Tries - 1, R1Tries}

\* recvr1: the answer r, sent after k bytes 0xFF, or 0xFF after nine reads.
recvr1(k, r) == IF k < R1Tries THEN r ELSE 255

\* No command of the handshake was sent; block_addresses (ba) is FALSE as
\* mmcObjectInit leaves it, and no card has reported the CCS bit (ccs).
NoHandshake == [i |-> 0, cmd0 |-> 0, acmd41 |-> 0, cmd1 |-> 0, r |-> 255,
                busy |-> FALSE, ba |-> FALSE, ccs |-> FALSE]

\* A loop that gives up one attempt after the bound.
GiveUpLate(i, bound) == i + 1 > bound

\* ++i >= bound
GiveUp(i, bound) == i + 1 >= bound

\* The card lets go of the data line.
CardIdle ==
  /\ hs.busy
  /\ hs' = [hs EXCEPT !.busy = FALSE]
  /\ UNCHANGED <<swvars, kvars, vtlist, mmc, vtmon, bvars, spi, i2c>>

\* One command of the handshake, at frame at: wait() has seen the line
\* idle, the command is sent and answered between spiSelect and
\* spiUnselect, and the call goes on at frame to, or returns TRUE (ret).
ConnStep(at, h, to, ret) ==
  /\ Running(at)
  /\ ~hs.busy
  /\ UserStep
  /\ \E b \in BOOLEAN : hs' = [h EXCEPT !.busy = b]
  /\ tstack' = SetTop(currp, to)
  /\ call' = [call EXCEPT !.ret = ret, !.spiop = TRUE]
  /\ spi' = [spi EXCEPT !.sel = FALSE]
  /\ UNCHANGED <<swvars, mode, lk, isr, pendsv, currp, rlist, tstate, sem, readySeq,
                 r0, vtlist, mmc, vtmon, bus, evt, i2c>>

\* A command in a loop of the handshake: the answer r ends the loop (done),
\* ends the call (fatal), or counts as a failed attempt, after which the
\* call gives up or sleeps and tries again.
ConnLoop(at, h, r, done, fatal, bound, to, slp) ==
  LET stop == fatal \/ (~done /\ GiveUp(hs.i, bound))
  IN ConnStep(at,
              [h EXCEPT !.r = r, !.i = IF done \/ fatal THEN @ ELSE @ + 1],
              IF done THEN to ELSE IF stop THEN "user" ELSE slp,
              IF ~done /\ stop THEN "TRUE" ELSE "none")

\* spiStart with the low speed configuration, spiIgnore, i = 0.  The call
\* does not assign block_addresses here.
ConnBegin ==
  /\ Running("conn_hs")
  /\ UserStep
  /\ hs' = [NoHandshake EXCEPT !.busy = hs.busy, !.ba = hs.ba]
  /\ tstack' = SetTop(currp, "conn_cmd0")
  /\ call' = [call EXCEPT !.spiop = TRUE]
  /\ UNCHANGED <<swvars, mode, lk, isr, pendsv, currp, rlist, tstate, sem, readySeq,
                 r0, vtlist, mmc, vtmon, bus, evt, spi, i2c>>

\* send_command_R1(MMC_CMDGOIDLE) in the first loop.
ConnCmd0(k, a) ==
  LET r == recvr1(k, a)
  IN ConnLoop("conn_cmd0", [hs EXCEPT !.cmd0 = @ + 1], r, r = 1, FALSE,
              Cmd0Retry, "conn_cmd8", "conn_slp0")

\* send_command_R3(MMC_CMDINTERFACE_CONDITION), and i = 0 for the loop that
\* follows.
ConnCmd8(k, a) ==
  LET r == recvr1(k, a)
  IN ConnStep("conn_cmd8", [hs EXCEPT !.r = r, !.i = 0],
              IF r # 5 THEN "conn_cmd55" ELSE "conn_cmd1", "none")

\* send_command_R1(MMC_CMDAPP) in the second loop.
ConnCmd55(k, a) ==
  LET r == recvr1(k, a)
  IN ConnLoop("conn_cmd55", [hs EXCEPT !.acmd41 = @ + 1], r, r = 1, FALSE,
              Acmd41Retry, "conn_acmd41", "conn_slp41")

\* send_command_R3(MMC_ACMDOPCONDITION) in the second loop.
ConnAcmd41(k, a) ==
  LET r == recvr1(k, a)
  IN ConnLoop("conn_acmd41", hs, r, r = 0, FALSE,
              Acmd41Retry, "conn_ocr", "conn_slp41")

\* The bit 0x40 of r3[0] after recvr3: the CCS bit of the OCR the card
\* sent, or, when recvr1 gave up before the card answered, a bit of the
\* four bytes that were on the line then.
OcrBit(k, ccs, line) == IF k < R1Tries THEN ccs ELSE line

\* send_command_R3(MMC_CMDREADOCR), block_addresses set when the bit 0x40 of
\* r3[0] is set and left alone when it is not, and i = 0 for the loop that
\* follows.  The card's CCS bit is ccs; it is kept as reported when the
\* card answered before recvr1 gave up.
ConnReadOcr(k, a, ccs, line) ==
  ConnStep("conn_ocr",
           [hs EXCEPT !.r = recvr1(k, a), !.i = 0,
                      !.ba = IF OcrBit(k, ccs, line) THEN TRUE ELSE @,
                      !.ccs = (k < R1Tries /\ ccs)],
           "conn_cmd1", "none")

\* send_command_R1(MMC_CMDINIT) in the third loop.
ConnCmd1(k, a) ==
  LET r == recvr1(k, a)
  IN ConnLoop("conn_cmd1", [hs EXCEPT !.cmd1 = @ + 1], r, r = 0, r \notin {0, 1},
              Cmd1Retry, "conn_blk", "conn_slp1")

\* spiStart with the high speed configuration and
\* send_command_R1(MMC_CMDSETBLOCKLEN).
ConnSetBlockLen(k, a) ==
  LET r == recvr1(k, a)
  IN ConnStep("conn_blk", [hs EXCEPT !.r = r],
              IF r = 0 THEN "conn_chk" ELSE "user",
              IF r = 0 THEN "none" ELSE "TRUE")

\* The frame a loop sleeps in, and the command it goes on with.
SleepOf ==
  [conn_slp0 |-> "conn_cmd0", conn_slp41 |-> "conn_cmd55", conn_slp1 |-> "conn_cmd1"]

\* chThdSleepMilliseconds(10) returns.
ConnWake ==
  /\ isr = <<>>
  /\ ~pendsv
  /\ Top(currp) \in DOMAIN SleepOf
  /\ UserStep
  /\ tstack' = SetTop(currp, SleepOf[Top(currp)])
  /\ UNCHANGED <<swvars, mode, lk, isr, pendsv, currp, rlist, tstate, sem, readySeq,
                 r0, tvars>>

(***************************************************************************)
(* The I2C driver's transfers and error flags.  errors is the driver's     *)
(* flags field, init what it held after i2cObjectInit, thr the thread      *)
(* suspended until its transfer ends.  added are the flags added since the *)
(* last i2cGetAndClearFlags, xadd those added since the last transfer      *)
(* began; gets says that i2cGetAndClearFlags was called, xfer that its     *)
(* last call ended a transfer, ret what that call returned and exp the     *)
(* flags that had been added before it.                                    *)
(***************************************************************************)
I2cFlags == {"BUS_ERROR", "ACK_FAILURE"}

i2cAddFlagsI(x, mask) ==
  [x EXCEPT !.errors = @ \cup mask, !.added = @ \cup mask, !.xadd = @ \cup mask]

\* The driver's interrupt handler, in one locked section: it adds the flags
\* of mask and, when the transfer is over (done), makes the driver ready and
\* wakes the thread that waits for it.
I2cIsr(mask, done) ==
  /\ InHandler("i2c", "h0")
  /\ lk' = PortLock(lk)
  /\ isr' = Goto("h2")
  /\ LET x == IF mask = {} THEN i2c ELSE i2cAddFlagsI(i2c, mask)
         wake == done /\ i2c.thr # 0
         k == IF wake THEN chSchReadyI(Sched, i2c.thr) ELSE Sched
     IN /\ i2c' = IF wake THEN [x EXCEPT !.thr = 0, !.state = "I2C_READY"] ELSE x
        /\ SchedTo(k)
        /\ irqCtx' = [irqCtx EXCEPT !.woke = @ \cup k.woke]
  /\ UNCHANGED <<swvars, mode, pendsv, tstack, sem, r0, vtlist, mmc, vtmon, bvars,
                 spi, hs>>

\* The chSysUnlockFromIsr() of the driver's handler.
I2cIsrUnlock ==
  /\ InHandler("i2c", "h2")
  /\ lk' = PortUnlock(lk)
  /\ isr' = Goto("h3")
  /\ UNCHANGED <<swvars, mode, pendsv, currp, rlist, tstate, tstack, sem,
                 readySeq, irqCtx, r0, tvars>>

\* i2cStart up to its chSysUnlock().
i2cStart ==
  /\ Running("user")
  /\ currp # IDLE
  /\ i2c.state \in {"I2C_STOP", "I2C_READY"}
  /\ UserStep
  /\ lk' = PortLock(lk)
  /\ tstack' = SetTop(currp, "fin_unlock")
  /\ i2c' = [i2c EXCEPT !.state = "I2C_READY"]
  /\ UNCHANGED <<swvars, mode, isr, pendsv, currp, rlist, tstate, sem, readySeq, r0,
                 vtlist, mmc, vtmon, bvars, spi, hs>>

\* i2cStop up to its chSysUnlock().
i2cStop ==
  /\ Running("user")
  /\ currp # IDLE
  /\ i2c.state \in {"I2C_STOP", "I2C_READY"}
  /\ UserStep
  /\ lk' = PortLock(lk)
  /\ tstack' = SetTop(currp, "fin_unlock")
  /\ i2c' = [i2c EXCEPT !.state = "I2C_STOP"]
  /\ UNCHANGED <<swvars, mode, isr, pendsv, currp, rlist, tstate, sem, readySeq, r0,
                 vtlist, mmc, vtmon, bvars, spi, hs>>

\* i2cMasterTransmit and i2cMasterReceive up to the point where the caller
\* is suspended in _i2c_wait_s: the transfer is started and the thread
\* sleeps until the handler wakes it.
Transfer2(st) ==
  /\ Running("user")
  /\ currp # IDLE
  /\ i2c.state = "I2C_READY"
  /\ UserStep
  /\ lk' = PortLock(lk)
  /\ tstack' = SetTop(currp, "i2c_woken")
  /\ i2c' = [i2c EXCEPT !.state = st, !.thr = currp, !.xadd = {}, !.xfer = FALSE]
  /\ SchedTo(chSchGoSleepS(Sched, "SUSPENDED"))
  /\ UNCHANGED <<swvars, mode, isr, pendsv, sem, r0, vtlist, mmc, vtmon, bvars,
                 spi, hs>>

i2cMasterTransmit == Transfer2("I2C_ACTIVE_TRANSMIT")

i2cMasterReceive == Transfer2("I2C_ACTIVE_RECEIVE")

\* _i2c_wait_s, the caller switched in again: its chSysUnlock().
I2cWaitReturn ==
  /\ Running("i2c_woken")
  /\ lk' = PortUnlock(lk)
  /\ tstack' = SetTop(currp, "i2c_get")
  /\ UNCHANGED <<swvars, mode, isr, pendsv, currp, rlist, tstate, sem, readySeq,
                 irqCtx, r0, tvars>>

\* i2cGetAndClearFlags up to its chSysUnlock(), called by the application
\* (f = "user") or at the end of a transfer (f = "i2c_get").
i2cGetAndClearFlags(f) ==
  /\ Running(f)
  /\ currp # IDLE
  /\ UserStep
  /\ lk' = PortLock(lk)
  /\ tstack' = SetTop(currp, "fin_unlock")
  /\ i2c' = [i2c EXCEPT !.ret = i2c.errors, !.errors = {}, !.added = {},
                        !.exp = i2c.added, !.gets = TRUE,
                        !.xfer = (f = "i2c_get")]
  /\ UNCHANGED <<swvars, mode, isr, pendsv, currp, rlist, tstate, sem, readySeq, r0,
                 vtlist, mmc, vtmon, bvars, spi, hs>>

(***************************************************************************)
(* Specifications.                                                         *)
(***************************************************************************)
SwitchOff ==
  /\ port = "v7m"
  /\ cpu = [r |-> Pattern(0, "v7m").r, s |-> Pattern(0, "v7m").s,
            sp |-> StackWords, pc |-> 0]
  /\ mem = [t \in SwThreads |-> <<>>]
  /\ ctx = [t \in SwThreads |-> 0]
  /\ swcur = 1
  /\ atCall = [t \in SwThreads |-> 0]
  /\ resumed = FALSE

\* Nobody listens.
EvtOff == [src |-> 0, thr |-> 1, pending |-> {}, wmask |-> {}, ret |-> {}]

\* No MMC call in progress.
NoApi == [fn |-> "none", d |-> 0, thr |-> 0, entry |-> "none", seen |-> FALSE,
          ret |-> "none", spiop |-> FALSE, next |-> "user", addr |-> "none"]

\* The slave is not selected.
SpiOff == [sel |-> FALSE]

\* The I2C driver stopped, with no flag set and nothing added or returned.
I2cOff == [state |-> "I2C_STOP", errors |-> {}, init |-> {}, thr |-> 0,
           added |-> {}, xadd |-> {}, gets |-> FALSE, xfer |-> FALSE, ret |-> {},
           exp |-> {}]

TimersOff ==
  /\ vtlist = <<>>
  /\ mmc = [d \in Drivers |-> [state |-> "MMC_STOP", cnt |-> 0, ev |-> "none"]]
  /\ vtmon = VTMonOff
  /\ bus = i2cObjectInit("mutex")
  /\ evt = EvtOff
  /\ call = NoApi
  /\ spi = SpiOff
  /\ hs = NoHandshake
  /\ i2c = I2cOff

\* The kernel after chSysInit(): the main thread runs, the idle thread is
\* ready and has not run yet.
InitKernel ==
  /\ mode \in {"svc", "pendsv"}
  /\ lk = [held |-> FALSE, err |-> FALSE, byEpi |-> FALSE, epiErr |-> FALSE]
  /\ isr = <<>>
  /\ pendsv = FALSE
  /\ currp = 1
  /\ rlist = <<IDLE>>
  /\ tstate = [t \in Threads |-> IF t = IDLE THEN "READY"
                                 ELSE IF t = 1 THEN "CURRENT" ELSE "UNINIT"]
  /\ tstack = [t \in Threads |-> IF t = IDLE THEN <<"start">>
                                 ELSE IF t = 1 THEN <<"user">> ELSE <<>>]
  /\ sem = [cnt |-> 0, queue |-> <<>>, seq |-> <<>>]
  /\ readySeq = <<IDLE>>
  /\ irqCtx = IrqOff
  /\ r0 = [t \in Threads |-> NoCall]

KernelOff ==
  /\ InitKernel
  /\ mode = "svc"

Init ==
  /\ InitKernel
  /\ SwitchOff
  /\ TimersOff

PortNext ==
  \/ PortIrqEpilogue
  \/ ExcReturn
  \/ PortSwitchFromIsr
  \/ SVCallVector
  \/ PortSwitchFromIsrPend
  \/ PendSVVector
  \/ ThdUnlock

Next ==
  \/ \E irq \in {"tick", "ext"} : IrqEntry(irq)
  \/ SysTickLock
  \/ SysTickTimerHandler
  \/ VTDoTick
  \/ SysTickUnlock
  \/ \E n \in 1..MaxSignals : ExtSignal(n)
  \/ ExtUnlock
  \/ PortNext
  \/ PortThreadStart
  \/ ThdSemWait
  \/ ThdSemSignal
  \/ \E n \in Workers : ThdCreate(n)
  \/ ThdExit

Spec == Init /\ [][Next]_vars

InitTick ==
  /\ InitKernel
  /\ SwitchOff
  /\ TimersOff

NextTick ==
  \/ IrqEntry("tick")
  \/ SysTickLock
  \/ SysTickTimerHandler
  \/ VTDoTick
  \/ TmrfuncLock
  \/ \E inserted \in BOOLEAN : TmrfuncBody(inserted)
  \/ TmrfuncUnlock
  \/ SysTickUnlock
  \/ PortNext
  \/ \E d \in Drivers : mmcStart(d)
  \/ \E d \in Drivers : mmcStop(d)

SpecTick == InitTick /\ [][NextTick]_vars

\* Threads that share the I2C bus, in the build with mutexes and in the
\* build without.
InitBus ==
  /\ InitKernel
  /\ SwitchOff
  /\ vtlist = <<>>
  /\ mmc = [d \in Drivers |-> [state |-> "MMC_STOP", cnt |-> 0, ev |-> "none"]]
  /\ vtmon = VTMonOff
  /\ \E build \in {"mutex", "sem"} : bus = i2cObjectInit(build)
  /\ evt = EvtOff
  /\ call = NoApi
  /\ spi = SpiOff
  /\ hs = NoHandshake
  /\ i2c = I2cOff

NextBus ==
  \/ i2cAcquireBus
  \/ AcquireBusReturn
  \/ i2cReleaseBus
  \/ \E n \in Workers : ThdCreate(n)
  \/ PortThreadStart
  \/ ThdSemWait
  \/ ThdSemSignal
  \/ ThdUnlock

SpecBus == InitBus /\ [][NextBus]_vars

\* Two threads that share two I2C drivers, in both builds.
InitBus2 ==
  /\ InitKernel
  /\ SwitchOff
  /\ vtlist = <<>>
  /\ mmc = [d \in Drivers |-> [state |-> "MMC_STOP", cnt |-> 0, ev |-> "none"]]
  /\ vtmon = VTMonOff
  /\ \E build \in {"mutex", "sem"} : bus = i2cObjectInit(build)
  /\ evt = EvtOff
  /\ call = NoApi
  /\ spi = SpiOff
  /\ hs = NoHandshake
  /\ i2c = I2cOff

NextBus2 ==
  \/ i2cAcquireBus
  \/ AcquireBusReturn
  \/ i2cReleaseBus
  \/ AcquireOther
  \/ AcquireOtherReturn
  \/ ReleaseOther
  \/ ThdCreate(2)
  \/ PortThreadStart
  \/ ThdSemWait
  \/ ThdSemSignal
  \/ ThdUnlock

SpecBus2 == InitBus2 /\ [][NextBus2]_vars

\* One MMC driver with its insertion monitor, an application thread that
\* connects and disconnects the card, and a thread of higher priority that
\* listens to the driver's events.
InitMmc ==
  /\ InitKernel
  /\ SwitchOff
  /\ vtlist = <<>>
  /\ mmc = [d \in Drivers |-> [state |-> "MMC_STOP", cnt |-> 0, ev |-> "none"]]
  /\ vtmon = VTMonOff
  /\ bus = i2cObjectInit("mutex")
  /\ evt = [EvtOff EXCEPT !.src = 1, !.thr = 2]
  /\ call = NoApi
  /\ spi = SpiOff
  /\ hs = NoHandshake
  /\ i2c = I2cOff

NextMmc ==
  \/ IrqEntry("tick")
  \/ SysTickLock
  \/ SysTickTimerHandler
  \/ VTDoTick
  \/ TmrfuncLock
  \/ \E inserted \in BOOLEAN : TmrfuncBody(inserted)
  \/ TmrfuncUnlock
  \/ SysTickUnlock
  \/ PortNext
  \/ PortThreadStart
  \/ ThdCreate(2)
  \/ mmcStart(1)
  \/ mmcStop(1)
  \/ \E mask \in (SUBSET Flags) \ {{}} : EvtWait(mask)
  \/ EvtWaitWake
  \/ EvtWaitReturn
  \/ mmcConnect(1)
  \/ \E ok \in BOOLEAN : ConnectHandshake(ok)
  \/ ConnectCheck
  \/ ConnectNotInserted
  \/ mmcDisconnect(1)
  \/ DisconnectLocked

SpecMmc == InitMmc /\ [][NextMmc]_vars

\* One MMC driver with its insertion monitor and one thread that connects
\* the card and makes sequential transfers.
InitSeq ==
  /\ InitKernel
  /\ SwitchOff
  /\ TimersOff

NextSeq ==
  \/ IrqEntry("tick")
  \/ SysTickLock
  \/ SysTickTimerHandler
  \/ VTDoTick
  \/ TmrfuncLock
  \/ \E inserted \in BOOLEAN : TmrfuncBody(inserted)
  \/ TmrfuncUnlock
  \/ SysTickUnlock
  \/ PortNext
  \/ mmcStart(1)
  \/ mmcStop(1)
  \/ mmcConnect(1)
  \/ \E ok \in BOOLEAN : ConnectHandshake(ok)
  \/ ConnectCheck
  \/ ConnectNotInserted
  \/ mmcDisconnect(1)
  \/ DisconnectLocked
  \/ CallUnlock
  \/ mmcStartSequentialRead(1)
  \/ mmcStartSequentialWrite(1)
  \/ mmcSequentialRead(1)
  \/ mmcSequentialWrite(1)
  \/ mmcStopSequentialRead(1)
  \/ mmcStopSequentialWrite(1)
  \/ \E ok \in BOOLEAN : SeqCommand(ok)
  \/ \E ok \in BOOLEAN : SeqData(ok)
  \/ SeqBack
  \/ SeqStopCommand
  \/ SeqStopEnd

SpecSeq == InitSeq /\ [][NextSeq]_vars

\* One MMC driver, its polling timer, and a thread that calls mmcConnect,
\* with the handshake command by command.
InitConn ==
  /\ KernelOff
  /\ SwitchOff
  /\ TimersOff

\* The steps of the tick handler and of the port layer, in the build that
\* returns from interrupts through SVCall.
TickSteps ==
  \/ SysTickLock
  \/ SysTickTimerHandler
  \/ VTDoTick
  \/ TmrfuncLock
  \/ \E inserted \in BOOLEAN : TmrfuncBody(inserted)
  \/ TmrfuncUnlock
  \/ SysTickUnlock
  \/ PortIrqEpilogue
  \/ ExcReturn
  \/ PortSwitchFromIsr
  \/ SVCallVector
  \/ ThdUnlock

\* The steps of mmcConnect after its entry, with cards whose CCS bit is one
\* of Ccs.
ConnStepsOf(Ccs) ==
  \/ ConnBegin
  \/ \E k \in Delays, a \in Resp : ConnCmd0(k, a)
  \/ \E k \in Delays, a \in Resp : ConnCmd8(k, a)
  \/ \E k \in Delays, a \in Resp : ConnCmd55(k, a)
  \/ \E k \in Delays, a \in Resp : ConnAcmd41(k, a)
  \/ \E k \in Delays, a \in Resp, ccs \in Ccs, line \in Ccs :
        ConnReadOcr(k, a, ccs, line)
  \/ \E k \in Delays, a \in Resp : ConnCmd1(k, a)
  \/ \E k \in Delays, a \in Resp : ConnSetBlockLen(k, a)
  \/ ConnWake
  \/ ConnectCheck
  \/ ConnectNotInserted

\* The steps of mmcConnect after its entry, with cards of standard
\* capacity, which leave block_addresses as mmcObjectInit set it.
ConnSteps == ConnStepsOf({FALSE})

NextConn ==
  \/ IrqEntry("tick")
  \/ TickSteps
  \/ mmcStart(1)
  \/ mmcConnect(1)
  \/ ConnSteps
  \/ CardIdle

\* The system tick goes on, a handler that was entered runs to its end, and
\* the thread that called mmcConnect runs between the interrupts.  Nothing
\* is assumed of the card.
SpecConn ==
  /\ InitConn
  /\ [][NextConn]_vars
  /\ WF_vars(IrqEntry("tick"))
  /\ WF_vars(TickSteps)
  /\ SF_vars(ConnSteps)

\* One MMC driver, its polling timer, and a thread that connects the card
\* with the handshake command by command and starts sequential transfers,
\* which last until the card is removed.  The cards are of either capacity.
NextAddr ==
  \/ NextConn
  \/ ConnStepsOf(BOOLEAN)
  \/ CallUnlock
  \/ mmcStartSequentialRead(1)
  \/ mmcStartSequentialWrite(1)
  \/ \E ok \in BOOLEAN : SeqCommand(ok)
  \/ SeqBack

SpecAddr == InitConn /\ [][NextAddr]_vars

\* The I2C driver after i2cObjectInit, which does not assign the errors
\* field: it holds whatever the memory of the object held.
InitI2c ==
  /\ InitKernel
  /\ SwitchOff
  /\ vtlist = <<>>
  /\ mmc = [d \in Drivers |-> [state |-> "MMC_STOP", cnt |-> 0, ev |-> "none"]]
  /\ vtmon = VTMonOff
  /\ bus = i2cObjectInit("mutex")
  /\ evt = EvtOff
  /\ call = NoApi
  /\ spi = SpiOff
  /\ hs = NoHandshake
  /\ \E e \in SUBSET I2cFlags : i2c = [I2cOff EXCEPT !.errors = e, !.init = e]

NextI2c ==
  \/ IrqEntry("i2c")
  \/ \E mask \in SUBSET I2cFlags : \E done \in BOOLEAN : I2cIsr(mask, done)
  \/ I2cIsrUnlock
  \/ PortNext
  \/ PortThreadStart
  \/ i2cStart
  \/ i2cStop
  \/ i2cMasterTransmit
  \/ i2cMasterReceive
  \/ I2cWaitReturn
  \/ \E f \in {"user", "i2c_get"} : i2cGetAndClearFlags(f)

SpecI2c == InitI2c /\ [][NextI2c]_vars

InitSw ==
  /\ InitSwitch
  /\ KernelOff
  /\ TimersOff

SpecSwitch == InitSw /\ [][NextSwitch]_vars

(***************************************************************************)
(* Properties.                                                             *)
(***************************************************************************)
\* From the epilogue of a handler that returns to thread mode up to the
\* end of _port_switch_from_isr.
InSwitchWindow ==
  \/ (Len(isr) = 1 /\ Handler.pc = "ret")
  \/ (isr = <<>> /\ ~pendsv /\ Top(currp) \in {"sfi", "sfi_exit"})

(* C2: from the return of the epilogue of a handler that goes back to
   thread mode until the end of _port_switch_from_isr the system lock is
   held; the only step that releases it there is the one that ends
   _port_switch_from_isr (SVCallVector, or the port_unlock behind the PendSV
   request), and no interrupt handler is entered meanwhile. *)
C2_LockHeldAcrossSwitch ==
  [][InSwitchWindow =>
       /\ lk.held
       /\ Len(isr') <= Len(isr)
       /\ (~lk'.held => (isr = <<>> /\ Top(currp) = "sfi_exit"))]_vars

C2_Witness ==
  /\ Running("sfi_exit")
  /\ lk.held
  /\ lk.byEpi
  /\ irqCtx.on
  /\ irqCtx.woke # {}

(* C3: a handler about to return to thread mode has put the context of
   _port_switch_from_isr on the process stack and holds the lock, a handler
   about to return to a preempted handler has released the lock and added
   nothing; and behind the preemption check of _port_switch_from_isr no
   ready thread is more urgent than the current one. *)
C3_Diverted ==
  /\ AtPc("ret") =>
       IF Len(isr) = 1
       THEN Top(currp) = "sfi" /\ lk.held
       ELSE Top(currp) # "sfi" /\ ~lk.held
  /\ Running("sfi_exit") => ~chSchIsPreemptionRequired(Sched)

C3_Witness == Running("sfi") /\ chSchIsPreemptionRequired(Sched)

C3_WitnessNested == AtPc("ret") /\ Len(isr) = 2

(* C4: a created thread that has not run yet resumes at _port_thread_start;
   the entry function (r4) is called with its argument (r5) and runs with
   the system lock released; a thread whose entry function returned is
   FINAL, is not the current thread and is in no queue. *)
C4_ThreadStart ==
  \A t \in Threads :
    /\ (t # 1 /\ tstate[t] # "UNINIT" /\ r0[t] = NoCall) => tstack[t] = <<"start">>
    /\ r0[t] # NoCall => r0[t] = [fn |-> 20 + t, arg |-> 10 + t]
    /\ (currp = t /\ Running("user") /\ r0[t] # NoCall) => ~lk.held
    /\ (tstack[t] # <<>> /\ Top(t) = "exit") =>
         /\ tstate[t] = "FINAL"
         /\ currp # t
         /\ \A i \in DOMAIN rlist : rlist[i] # t
         /\ \A i \in DOMAIN sem.queue : sem.queue[i] # t

C4_Witness ==
  \E t \in Workers : tstate[t] = "FINAL" /\ r0[t] = [fn |-> 20 + t, arg |-> 10 + t]

(* C5: thread code outside the kernel runs with the system lock released,
   and every acquisition made by _port_irq_epilogue finds the lock free and
   is followed by exactly one release before the next acquisition. *)
C5_ResumeUnlocked ==
  /\ Running("user") => ~lk.held
  /\ (isr = <<>> /\ Top(currp) = "spin") => ~lk.held
  /\ ~lk.epiErr

C5_Witness ==
  /\ Running("user")
  /\ irqCtx.on
  /\ lk.byEpi
  /\ currp # irqCtx.thr

(* C6: acquisitions and releases of the system lock alternate: the lock is
   never acquired while held nor released while free. *)
C6_LockAlternates == ~lk.err

(* C7: whenever a timer callback starts executing the system lock is held. *)
C7_CallbackLocked == InHandler("tick", "cb0") => lk.held

(* C8: when handlers made ready a thread more urgent than the thread the
   interrupt was taken from, that thread makes no thread-level step, and as
   soon as no handler is active and the lock is released the current thread
   is one of the threads made ready and the interrupted thread is READY. *)
C8_Preempts ==
  (irqCtx.on /\ HigherWoken(irqCtx) # {}) =>
     /\ ~irqCtx.ran
     /\ (isr = <<>> /\ ~lk.held) =>
          /\ currp \in HigherWoken(irqCtx)
          /\ tstate[currp] = "CURRENT"
          /\ tstate[irqCtx.thr] = "READY"

C8_Witness ==
  /\ irqCtx.on
  /\ HigherWoken(irqCtx) # {}
  /\ Running("user")
  /\ ~lk.held

(* C9: with the lock released and no handler active no ready thread is more
   urgent than the current one, and the current thread is switched out to
   READY only for a thread of strictly higher priority. *)
C9_StrictPriority ==
  /\ [](( ~lk.held /\ isr = <<>>) =>
          \A i \in DOMAIN rlist : Prio(currp) >= Prio(rlist[i]))
  /\ [][(currp' # currp /\ tstate'[currp] = "READY") =>
          Prio(currp') > Prio(currp)]_vars

C9_Witness ==
  /\ Running("user")
  /\ ~lk.held
  /\ irqCtx.on
  /\ currp = irqCtx.thr
  /\ \E t \in irqCtx.woke : Prio(t) = Prio(currp) /\ tstate[t] = "READY"

Pos(q, t) == CHOOSE i \in DOMAIN q : q[i] = t

(* C10: the ready list is in descending order of priority, and of two
   ready threads of the same priority the one that became ready first is
   nearer the head. *)
C10_ReadyOrder ==
  /\ \A i \in DOMAIN rlist : \E j \in DOMAIN readySeq : readySeq[j] = rlist[i]
  /\ \A i, j \in DOMAIN rlist :
       i < j =>
         /\ Prio(rlist[i]) >= Prio(rlist[j])
         /\ Prio(rlist[i]) = Prio(rlist[j]) =>
              Pos(readySeq, rlist[i]) < Pos(readySeq, rlist[j])

C10_Witness ==
  /\ InHandler("ext", "h2")
  /\ \E i \in DOMAIN rlist :
       /\ i + 1 \in DOMAIN rlist
       /\ Prio(rlist[i]) = Prio(rlist[i + 1])
       /\ {rlist[i], rlist[i + 1]} \subseteq irqCtx.woke

(* C11: exactly one thread is the current (RUNNING) one and it is not in
   the ready list; every other thread is READY exactly when it is in the
   ready list, where it occurs once. *)
C11_OneRunning ==
  /\ tstate[currp] = "CURRENT"
  /\ \A t \in Threads : tstate[t] = "CURRENT" => t = currp
  /\ \A i \in DOMAIN rlist : rlist[i] # currp /\ tstate[rlist[i]] = "READY"
  /\ \A t \in Threads \ {currp} :
       tstate[t] = "READY" <=>
         Cardinality({i \in DOMAIN rlist : rlist[i] = t}) = 1

C11_Witness ==
  /\ Running("user")
  /\ irqCtx.on
  /\ HigherWoken(irqCtx) # {}
  /\ Len(rlist) >= 2
  /\ \E t \in Workers : tstate[t] = "WTSEM"

\* The expiry of the i-th timer of list l, in ticks from now.
RECURSIVE AbsExpiry(_, _)
AbsExpiry(l, i) == IF i = 0 THEN 0 ELSE AbsExpiry(l, i - 1) + l[i].delta

(* C12: the expiries the delta list encodes are non-decreasing from head to
   tail, the timers in the list are the armed ones, each once, and the
   expiry of each is the number of ticks it was armed with less the ticks
   taken since. *)
C12_TimerList ==
  /\ \A i, j \in DOMAIN vtlist :
       /\ i < j => AbsExpiry(vtlist, i) <= AbsExpiry(vtlist, j)
       /\ i # j => vtlist[i].id # vtlist[j].id
  /\ \A i \in DOMAIN vtlist : AbsExpiry(vtlist, i) = vtmon.due[vtlist[i].id]
  /\ \A d \in Drivers : vtmon.due[d] >= 0 <=> Armed(vtlist, d)

C12_Witness ==
  /\ Len(vtlist) = 2
  /\ vtlist[1].delta > 0
  /\ vtlist[2].delta > 0

(* C13: a callback is invoked only for a timer that is armed and due on
   this tick, which disarms it, and no timer stays due beyond the tick
   handler that found it due; a cancelled timer is not armed, so its
   callback is not invoked. *)
C13_FiresOnTime ==
  /\ ~vtmon.err
  /\ (\E d \in Drivers : vtmon.due[d] = 0) =>
       \E pc \in {"h1p", "cb0", "cb1", "cb2"} : InHandler("tick", pc)

C13_Witness ==
  /\ InHandler("tick", "cb0")
  /\ \E d \in Drivers :
       /\ d # Handler.cb
       /\ mmc[d].state = "MMC_STOP"
       /\ mmc[d].cnt > 0
       /\ vtmon.due[d] = -1

C13_WitnessOrder ==
  /\ InHandler("tick", "cb0")
  /\ \E d \in Drivers : vtmon.due[d] > 0

\* The threads blocked on the semaphore.
Waiters == {t \in Threads : tstate[t] = "WTSEM"}

\* The threads a step takes out of the semaphore's queue.
Woken == {t \in Waiters : tstate'[t] # "WTSEM"}

Min(a, b) == IF a < b THEN a ELSE b

(* C14: the count is never below minus the number of blocked waiters (it
   is minus that number when negative, and nobody waits when it is not);
   a step that signals n times unblocks as many waiters as there are, up
   to n, each of them ready or running afterwards, and no other step
   unblocks a waiter. *)
C14_SemCount ==
  /\ [](/\ sem.cnt >= -Len(sem.queue)
        /\ Len(sem.queue) = (IF sem.cnt < 0 THEN -sem.cnt ELSE 0)
        /\ Waiters = {sem.queue[i] : i \in DOMAIN sem.queue}
        /\ Cardinality(Waiters) = Len(sem.queue))
  /\ [][/\ Cardinality(Woken) =
            (IF sem'.cnt > sem.cnt THEN Min(sem'.cnt - sem.cnt, Len(sem.queue))
             ELSE 0)
        /\ \A t \in Woken : tstate'[t] \in {"READY", "CURRENT"}]_vars

C14_Witness ==
  /\ InHandler("ext", "h2")
  /\ Cardinality(irqCtx.woke) = 1
  /\ sem.cnt = 1

C14_WitnessBlocked == sem.cnt = -2 /\ Len(sem.queue) = 2

(* C15: a waiter that a signal unblocks has at least the priority of every
   thread that keeps waiting, and started waiting before each of those of
   its own priority. *)
C15_WakeOrder ==
  [][\A t \in Woken : \A u \in Waiters \ Woken :
       /\ Prio(t) >= Prio(u)
       /\ Prio(t) = Prio(u) => Pos(sem.seq, t) < Pos(sem.seq, u)]_vars

C15_Witness ==
  /\ \E t \in Waiters : \E u \in Threads \ Waiters :
       /\ Prio(t) = Prio(u)
       /\ (u \in irqCtx.woke \/ Running("fin_unlock"))
       /\ tstate[u] \in {"READY", "CURRENT"}
       /\ sem.cnt = -1
       /\ r0[t] # NoCall
       /\ r0[u] # NoCall
  /\ lk.held

C15_WitnessPrio ==
  /\ tstate[1] = "WTSEM"
  /\ \E u \in irqCtx.woke : Prio(u) > Prio(1)
  /\ lk.held

(* C16: the owner of the mutex never blocks on it; the nesting count is
   the number of locks the owner made less its unlocks; no other thread
   has acquired the mutex while the count is positive, and the mutex
   changes hands only by the owner's unlock at count 1. *)
C16_MutexNesting ==
  /\ [](bus.build = "mutex" =>
          /\ bus.mtx.owner = NoOwner <=> bus.mtx.cnt = 0
          /\ \A t \in Threads : t # bus.mtx.owner => bus.inbus[t] = 0
          /\ bus.mtx.owner # NoOwner =>
               /\ bus.mtx.cnt = bus.inbus[bus.mtx.owner] +
                    (IF Top(bus.mtx.owner) = "acq_unlock" THEN 1 ELSE 0)
               /\ \A i \in DOMAIN bus.mtx.queue :
                    bus.mtx.queue[i] # bus.mtx.owner)
  /\ [][bus.build = "mutex" =>
          /\ bus.mtx.owner = currp => tstate'[currp] # "WTMTX"
          /\ (bus.mtx.owner # NoOwner /\ bus'.mtx.owner # bus.mtx.owner) =>
               (bus.mtx.cnt = 1 /\ currp = bus.mtx.owner)]_vars

C16_Witness ==
  /\ bus.build = "mutex"
  /\ bus.mtx.cnt = 2
  /\ bus.mtx.owner # NoOwner
  /\ bus.inbus[bus.mtx.owner] = 2
  /\ bus.mtx.queue # <<>>

C16_WitnessOneLeft ==
  /\ bus.build = "mutex"
  /\ bus.mtx.cnt = 1
  /\ bus.mtx.queue # <<>>
  /\ Running("fin_unlock")
  /\ currp = bus.mtx.owner

\* The threads between their return from i2cAcquireBus and their call of
\* i2cReleaseBus.
InBus == {t \in Threads : bus.inbus[t] > 0}

(* C18: in the mutex build and in the semaphore build alike, at most one
   thread is between its return from i2cAcquireBus and its call of
   i2cReleaseBus, and no thread returns from i2cAcquireBus while another
   one is. *)
C18_BusExclusive ==
  /\ [](Cardinality(InBus) <= 1)
  /\ [][\A t \in Threads :
          bus'.inbus[t] > bus.inbus[t] => InBus \subseteq {t}]_vars

C18_Witness ==
  /\ bus.build = "sem"
  /\ InBus # {}
  /\ bus.sem.queue # <<>>
  /\ Running("user")

C18_WitnessMutex ==
  /\ bus.build = "mutex"
  /\ InBus # {}
  /\ bus.mtx.queue # <<>>
  /\ Running("user")

\* The listener's wait has its flags and has not returned yet.
Taken == evt.src # 0 /\ tstate[evt.thr] # "UNINIT" /\ Top(evt.thr) = "evt_unlock"

\* C17: an event wait returns only with a flag of its mask, returns exactly
\* the pending flags of the mask and clears exactly those, in one step made
\* with the lock held; a flag leaves the pending flags in no other way; and
\* when tmrfunc broadcasts inserted_event or removed_event the flag is
\* pending for the registered listener, which is made ready when it is
\* blocked waiting for that flag.
C17_EventWait ==
  [][ /\ (~Taken /\ Taken') =>
           /\ evt'.ret = evt.pending \cap evt'.wmask
           /\ evt'.ret # {}
           /\ evt'.pending = evt.pending \ evt'.ret
           /\ lk'.held
      /\ (evt.pending \ evt'.pending # {}) => (~Taken /\ Taken')
      /\ (InHandler("tick", "cb1") /\ Handler.cb = evt.src) =>
           LET f == IF mmc[evt.src].cnt = 0 /\ mmc'[evt.src].cnt > 0 THEN "removed"
                    ELSE IF mmc[evt.src].cnt > 0 /\ mmc'[evt.src].cnt = 0
                    THEN "inserted" ELSE "none"
           IN f # "none" =>
                /\ f \in evt'.pending
                /\ (tstate[evt.thr] = "WTOREVT" /\ f \in evt.wmask)
                      => tstate'[evt.thr] = "READY"
    ]_vars

\* The listener was blocked, tmrfunc reported the card removed, and the wait
\* returns that flag while a flag outside its mask stays pending.
C17_Witness ==
  /\ Taken
  /\ evt.ret = {"removed"}
  /\ evt.pending = {"inserted"}

\* The listener blocked in its wait is woken by the broadcast of tmrfunc.
C17_WitnessWoken ==
  /\ InHandler("tick", "cb2")
  /\ evt.src # 0
  /\ tstate[evt.thr] = "READY"
  /\ evt.wmask \cap evt.pending # {}
  /\ tstate[evt.thr] # "UNINIT" /\ Top(evt.thr) = "evt_wake"

\* A call of fn returns in this step.
Returns(fn) == call'.fn = fn /\ call'.ret # "none" /\ (call.fn # fn \/ call.ret = "none")

\* C19: mmcDisconnect returns FALSE when it is invoked with the driver in
\* MMC_READY or MMC_INSERTED, and the driver is then in MMC_INSERTED unless
\* the card was removed or the driver stopped meanwhile; it returns TRUE
\* when invoked in any other state.
C19_DisconnectResult ==
  [][ Returns("disconnect") =>
        /\ call'.ret = "FALSE" <=> call'.entry \in {"MMC_READY", "MMC_INSERTED"}
        /\ call'.entry = "MMC_READY" =>
              mmc'[call'.d].state \in {"MMC_INSERTED", "MMC_WAIT", "MMC_STOP"}
    ]_vars

\* mmcDisconnect has returned from a call made in MMC_READY.
C19_Witness ==
  /\ call.fn = "disconnect"
  /\ call.entry = "MMC_READY"
  /\ call.ret # "none"
  /\ mmc[call.d].state = "MMC_INSERTED"

\* C20, first half: mmcConnect returns FALSE only if the driver is in
\* MMC_READY at the locked check that ends the call, or was in MMC_READY on
\* entry.
C20_FalseOnlyReady ==
  [][ (Returns("connect") /\ call'.ret = "FALSE") =>
        \/ call.entry = "MMC_READY"
        \/ lk'.held /\ mmc'[call.d].state = "MMC_READY"
    ]_vars

\* C20: mmcConnect returns FALSE only as above, and when tmrfunc reported the
\* card removed during the handshake it returns TRUE and does not set the
\* state to MMC_READY.
C20_ConnectResult ==
  [][ Returns("connect") =>
        /\ call'.ret = "FALSE" =>
              \/ call.entry = "MMC_READY"
              \/ lk'.held /\ mmc'[call.d].state = "MMC_READY"
        /\ call.seen =>
              /\ call'.ret = "TRUE"
              /\ mmc'[call.d].state = mmc[call.d].state
    ]_vars

\* tmrfunc reported the card removed during the handshake and found it
\* inserted again before the final check of mmcConnect.
C20_Witness ==
  /\ call.fn = "connect"
  /\ call.seen
  /\ call.ret = "none"
  /\ mmc[call.d].state = "MMC_INSERTED"
  /\ tstate[call.thr] = "CURRENT"
  /\ Top(call.thr) = "conn_chk"

\* The call in progress of fn ends in this step.
Finishes(fn) == call.fn = fn /\ call.ret = "none" /\ call'.ret # "none"

\* C21: when mmcStopSequentialRead or mmcStopSequentialWrite returns FALSE
\* the call moved the driver from MMC_READING or MMC_WRITING to MMC_READY,
\* and when tmrfunc reported the card removed after the entry check the call
\* returns TRUE.
C21_StopResult ==
  [][ \A fn \in {"stopread", "stopwrite"} :
        Finishes(fn) =>
          /\ call'.ret = "FALSE" =>
                /\ mmc[call.d].state = Transfer(OpOf(fn))
                /\ mmc'[call.d].state = "MMC_READY"
          /\ call.seen => call'.ret = "TRUE"
    ]_vars

\* mmcStopSequentialWrite alone satisfies the statement of C21.
C21_StopWriteResult ==
  [][ Finishes("stopwrite") =>
        /\ call'.ret = "FALSE" =>
              /\ mmc[call.d].state = "MMC_WRITING"
              /\ mmc'[call.d].state = "MMC_READY"
        /\ call.seen => call'.ret = "TRUE"
    ]_vars

\* The card was reported removed between the entry check and the final
\* section of mmcStopSequentialRead.
C21_Witness ==
  /\ call.fn = "stopread"
  /\ call.seen
  /\ call.ret = "none"
  /\ Top(call.thr) = "seq_end"

SeqFns == {"startread", "read", "stopread", "startwrite", "write", "stopwrite"}

\* The state a sequential-transfer function requires.
Expected(fn) ==
  IF fn \in {"startread", "startwrite"} THEN "MMC_READY" ELSE Transfer(OpOf(fn))

\* The entry section of a call of fn is executed in this step.
EntryStep(fn) ==
  /\ isr = <<>>
  /\ Top(currp) = "user"
  /\ tstack'[currp] = SetTop(currp, "call_unlock")[currp]
  /\ lk'.held
  /\ call'.fn = fn

\* C22: a sequential-transfer function called in a state other than the one
\* it requires returns TRUE from its entry section, leaves the driver as it
\* was and makes no SPI operation.
C22_WrongState ==
  [][ \A fn \in SeqFns :
        (EntryStep(fn) /\ mmc[call'.d].state # Expected(fn)) =>
          /\ call'.ret = "TRUE"
          /\ call'.next = "user"
          /\ ~call'.spiop
          /\ mmc' = mmc
          /\ spi' = spi
    ]_vars

\* mmcSequentialRead was called after tmrfunc took the driver out of
\* MMC_READING and has returned TRUE.
C22_Witness ==
  /\ call.fn = "read"
  /\ call.entry = "MMC_WAIT"
  /\ call.ret = "TRUE"
  /\ ~call.spiop
  /\ spi.sel
  /\ Top(call.thr) = "user"


\* C23: every i2cGetAndClearFlags returns exactly the flags added since the
\* previous one (since i2cObjectInit for the first), so that a flag added is
\* returned once; and the call that ends a transfer during which no flag
\* was added returns no flag.
C23_Flags ==
  /\ i2c.gets => i2c.ret = i2c.exp
  /\ (i2c.gets /\ i2c.xfer /\ i2c.xadd = {}) => i2c.ret = {}

\* The calls return the flags added since the previous call when the errors
\* field is clear after i2cObjectInit.
C23_FlagsInitClear ==
  (i2c.init = {} /\ i2c.gets) => i2c.ret = i2c.exp

\* The first i2cGetAndClearFlags after i2cObjectInit ended a transfer during
\* which the handler added no flag.
C23_Witness ==
  /\ i2c.gets
  /\ i2c.xfer
  /\ i2c.xadd = {}
  /\ i2c.exp = {}

\* C24: i2cReleaseBus releases the bus the caller acquired, which is then
\* free or handed to a waiter, and the caller keeps the second driver's bus
\* when it holds it.
C24_ReleaseBus ==
  [][ \A t \in Threads :
        (bus.inbus[t] = 1 /\ bus'.inbus[t] = 0) =>
          /\ bus.build = "mutex" =>
                /\ bus'.mtx.owner # t
                /\ bus.omtx.owner = t => bus'.omtx = bus.omtx
          /\ bus.build = "sem" =>
                /\ bus'.sem.cnt = bus.sem.cnt + 1
                /\ bus'.osem = bus.osem
    ]_vars

\* In the build with semaphores i2cReleaseBus releases the bus of its own
\* driver and leaves the second driver's alone.
C24_ReleaseBusSem ==
  [][ \A t \in Threads :
        (bus.build = "sem" /\ bus.inbus[t] = 1 /\ bus'.inbus[t] = 0) =>
          /\ bus'.sem.cnt = bus.sem.cnt + 1
          /\ bus'.osem = bus.osem
    ]_vars

\* A thread holds the bus and acquired the second driver's bus after it.
C24_Witness ==
  /\ bus.build = "mutex"
  /\ Running("user")
  /\ bus.inbus[currp] = 1
  /\ bus.inoth[currp] = 1
  /\ bus.owned[currp] = <<"bus", "other">>

\* tmrfunc polls for driver d in this step.
PollStep(d) == InHandler("tick", "cb1") /\ Handler.cb = d /\ isr' # isr

\* C25: the driver leaves MMC_WAIT for MMC_INSERTED, with inserted_event
\* broadcast, in the poll that is the MMC_POLLING_INTERVAL-th in a row to
\* see the card, and in no other step; a poll in MMC_WAIT that sees no card
\* puts the countdown back to MMC_POLLING_INTERVAL.
C25_Debounce ==
  [][ \A d \in Drivers :
        /\ (mmc[d].state = "MMC_WAIT" /\ mmc'[d].state = "MMC_INSERTED") =>
              /\ PollStep(d)
              /\ vtmon'.run[d] = PollInterval
              /\ evt.src = d => "inserted" \in evt'.pending
        /\ (PollStep(d) /\ mmc[d].state = "MMC_WAIT") =>
              /\ vtmon'.run[d] = PollInterval => mmc'[d].state = "MMC_INSERTED"
              /\ vtmon'.run[d] < PollInterval =>
                    /\ mmc'[d].state = "MMC_WAIT"
                    /\ evt'.pending = evt.pending
              /\ vtmon'.run[d] = 0 => mmc'[d].cnt = PollInterval
              /\ vtmon'.run[d] <= PollInterval
    ]_vars

\* The card was seen MMC_POLLING_INTERVAL times in a row and the listener has
\* not yet taken the event.
C25_Witness ==
  /\ mmc[1].state = "MMC_INSERTED"
  /\ vtmon.run[1] = PollInterval
  /\ "inserted" \in evt.pending

\* A poll that sees no card, for a driver that has left MMC_WAIT, sets
\* MMC_WAIT and broadcasts removed_event.
RemovalSeen(d) ==
  (PollStep(d) /\ ~vtmon'.last[d] /\
   mmc[d].state \in {"MMC_INSERTED", "MMC_READY", "MMC_READING", "MMC_WRITING"}) =>
     /\ mmc'[d].state = "MMC_WAIT"
     /\ mmc[d].ev = "inserted" /\ mmc'[d].ev = "removed"
     /\ evt.src = d => "removed" \in evt'.pending

\* C26, as stated: a poll that sees no card sets MMC_WAIT and broadcasts
\* removed_event, and the state leaves MMC_WAIT in no step of a thread.
C26_WaitKept ==
  [][ \A d \in Drivers :
        /\ RemovalSeen(d)
        /\ (mmc[d].state = "MMC_WAIT" /\ mmc'[d].state # "MMC_WAIT") => PollStep(d)
    ]_vars

\* C26, amended: a poll that sees no card sets MMC_WAIT and broadcasts
\* removed_event, and the only step of a thread in which the state leaves
\* MMC_WAIT is that of mmcStop, which sets MMC_STOP.
C26_WaitKeptButStop ==
  [][ \A d \in Drivers :
        /\ RemovalSeen(d)
        /\ (mmc[d].state = "MMC_WAIT" /\ mmc'[d].state # "MMC_WAIT") =>
              \/ PollStep(d)
              \/ isr = <<>> /\ mmc'[d].state = "MMC_STOP"
    ]_vars

\* mmcConnect has found, in its locked section, the MMC_WAIT that a poll
\* set during the handshake, and has left it.
C26_Witness ==
  /\ call.fn = "connect"
  /\ call.seen
  /\ call.ret = "TRUE"
  /\ mmc[call.d].state = "MMC_WAIT"
  /\ mmc[call.d].ev = "removed"

\* C27: from a mmcStart on, the broadcasts of a driver alternate and begin
\* with inserted_event: inserted_event is not broadcast when the last
\* broadcast since the mmcStart was inserted_event, and removed_event only
\* when it was inserted_event.
C27_Alternate ==
  [][ \A d \in Drivers :
        /\ PollStep(d) =>
              LET f == PollEvent(mmc[d], vtmon'.last[d])
              IN /\ f = "inserted" => mmc[d].ev \in {"none", "removed"}
                 /\ f = "removed" => mmc[d].ev = "inserted"
                 /\ mmc'[d].ev = IF f = "none" THEN mmc[d].ev ELSE f
        /\ mmc'[d].ev # mmc[d].ev =>
              \/ PollStep(d)
              \/ mmc[d].state = "MMC_STOP" /\ mmc'[d].ev = "none"
    ]_vars

\* inserted_event was broadcast again after the removed_event that a call
\* in progress had seen.
C27_Witness ==
  /\ call.fn # "none"
  /\ call.seen
  /\ mmc[call.d].state = "MMC_INSERTED"
  /\ mmc[call.d].ev = "inserted"

\* C28: with the lock released and the driver started, the countdown is
\* above zero exactly in MMC_WAIT, and is at most MMC_POLLING_INTERVAL.
C28_Countdown ==
  \A d \in Drivers :
    (~lk.held /\ mmc[d].state # "MMC_STOP") =>
       /\ mmc[d].cnt > 0 <=> mmc[d].state = "MMC_WAIT"
       /\ mmc[d].cnt <= PollInterval

\* The driver is back in MMC_WAIT after a removal, one present poll short of
\* MMC_INSERTED.
C28_Witness ==
  /\ ~lk.held
  /\ mmc[1].state = "MMC_WAIT"
  /\ mmc[1].ev = "removed"
  /\ mmc[1].cnt = PollInterval - 1

\* With the lock released, the polling timer of a driver is armed exactly
\* when the driver is started.
ArmedIffStarted ==
  \A d \in Drivers :
    ~lk.held => (Armed(vtlist, d) <=> mmc[d].state # "MMC_STOP")

\* tmrfunc arms the timer again in every poll; mmcStop cancels an armed
\* timer; in a step that finds and leaves the driver stopped the timer stays
\* unarmed, tmrfunc does not poll for it and it broadcasts nothing.
TimerSteps ==
  \A d \in Drivers :
    /\ PollStep(d) => Armed(vtlist', d)
    /\ (mmc[d].state # "MMC_STOP" /\ mmc'[d].state = "MMC_STOP") =>
          Armed(vtlist, d) /\ ~Armed(vtlist', d)
    /\ (mmc[d].state = "MMC_STOP" /\ mmc'[d].state = "MMC_STOP") =>
          /\ ~Armed(vtlist, d) /\ ~Armed(vtlist', d)
          /\ ~PollStep(d)
          /\ mmc'[d].ev = mmc[d].ev
          /\ evt.src = d => evt'.pending \subseteq evt.pending

\* C29: the polling timer is armed, with the lock released, exactly when
\* the driver is not MMC_STOP; tmrfunc re-arms it, mmcStop cancels it when
\* the driver was started and leaves it alone otherwise, and a stopped
\* driver is not polled and broadcasts nothing.
C29_TimerArmed == []ArmedIffStarted /\ [][TimerSteps]_vars

\* The same, observed from the threads only: outside the interrupt handlers
\* the timer is armed exactly when the driver is started.
C29_TimerArmedThread ==
  /\ [](isr = <<>> => ArmedIffStarted)
  /\ [][TimerSteps]_vars

\* Two drivers are started and the tick handler is about to call tmrfunc for
\* the second timer due on the same tick.
C29_Witness ==
  /\ InHandler("tick", "cb0")
  /\ \A d \in Drivers : mmc[d].state # "MMC_STOP"
  /\ \E d \in Drivers : d # Handler.cb /\ vtmon.due[d] = PollTicks

\* mmcConnect gives up in this step, during the handshake.
ConnFails ==
  /\ call.fn = "connect"
  /\ call.ret = "none"
  /\ call'.ret = "TRUE"
  /\ Top(currp) # "conn_chk"

\* A command of the handshake is sent in this step.
ConnSends(f) == hs'[f] = hs[f] + 1

\* The commands of the loops are sent at most as often as the bounds say.
ConnBounded ==
  hs.cmd0 <= Cmd0Retry /\ hs.acmd41 <= Acmd41Retry /\ hs.cmd1 <= Cmd1Retry

\* The call returns TRUE in the step in which an attempt fails and the bound
\* is reached, or CMD1 is answered with neither 0x00 nor 0x01; a call that
\* gives up leaves the state as it is, which is not MMC_READY.
ConnGivesUp ==
  /\ (ConnSends("cmd0") /\ hs'.cmd0 = Cmd0Retry /\ hs'.r # 1) => ConnFails
  /\ (Top(currp) \in {"conn_cmd55", "conn_acmd41"} /\ hs' # hs /\
      hs'.busy = hs.busy /\ hs'.acmd41 = Acmd41Retry /\ hs'.i = hs.i + 1) =>
        ConnFails
  /\ (ConnSends("cmd1") /\
      (hs'.r \notin {0, 1} \/ (hs'.cmd1 = Cmd1Retry /\ hs'.r # 0))) => ConnFails
  /\ ConnFails =>
        /\ mmc' = mmc
        /\ mmc[call.d].state # "MMC_READY"

\* A mmcConnect called in MMC_INSERTED is in progress.
Connecting ==
  call.fn = "connect" /\ call.entry = "MMC_INSERTED" /\ call.ret = "none"

\* C30: mmcConnect called in MMC_INSERTED returns, every command it sends
\* being answered; it sends CMD0, the CMD55/ACMD41 pair and CMD1 at most as
\* often as their bounds say, returns TRUE as soon as a bound is reached or
\* CMD1 is answered with neither 0x00 nor 0x01, and then leaves the state
\* as it is.
C30_ConnectEnds ==
  /\ []ConnBounded
  /\ [][ConnGivesUp]_vars
  /\ Connecting ~> ~Connecting

\* The bounds and the results alone.
C30_ConnectBounds == []ConnBounded /\ [][ConnGivesUp]_vars

\* The call returns when the card, each time it holds the data line low,
\* lets go of it again.
C30_ConnectEndsIdle == []<>(~hs.busy) => (Connecting ~> ~Connecting)

\* The call gave up in the second loop, after as many pairs as the bound
\* allows.
C30_Witness ==
  /\ call.fn = "connect"
  /\ call.ret = "TRUE"
  /\ hs.cmd0 = 1
  /\ hs.acmd41 = Acmd41Retry
  /\ hs.cmd1 = 0

\* No MMC call is in progress: the last one, if any, has returned.
NoCallInProgress ==
  /\ CallIdle
  /\ call.fn # "none" => tstack[call.thr][1] = "user"

\* C31: when no MMC call is in progress and the driver is neither in
\* MMC_READING nor in MMC_WRITING, the slave is not selected.
C31_Unselected ==
  \A d \in Drivers :
    (NoCallInProgress /\ mmc[d].state \notin {"MMC_READING", "MMC_WRITING"}) =>
       ~spi.sel

\* The same for the case the statement names: a sequential call, made in
\* the MMC_WAIT that a poll set in the middle of a transfer, has failed and
\* returned.
C31_UnselectedAfterFailure ==
  (/\ NoCallInProgress
   /\ call.fn \in {"read", "write", "stopread", "stopwrite"}
   /\ call.entry = "MMC_WAIT"
   /\ call.ret = "TRUE"
   /\ mmc[call.d].state \notin {"MMC_READING", "MMC_WRITING"}) => ~spi.sel

\* A step of a thread that takes the driver out of MMC_READING or
\* MMC_WRITING leaves the slave unselected.
C31_UnselectedByCall ==
  [][ \A d \in Drivers :
        (isr = <<>> /\ mmc[d].state \in {"MMC_READING", "MMC_WRITING"} /\
         mmc'[d].state \notin {"MMC_READING", "MMC_WRITING"}) => ~spi'.sel
    ]_vars

\* A transfer was ended by the stop function, which has returned.
C31_Witness ==
  /\ NoCallInProgress
  /\ call.fn = "stopwrite"
  /\ call.ret = "FALSE"
  /\ mmc[call.d].state = "MMC_READY"
  /\ ~spi.sel


\* The last call was mmcConnect and it returned FALSE: the card is connected.
Connected ==
  /\ NoCallInProgress
  /\ call.fn = "connect"
  /\ call.entry = "MMC_INSERTED"
  /\ call.ret = "FALSE"

\* C32: after a successful mmcConnect block_addresses is TRUE exactly when
\* the card connected by that call reported the CCS bit in its OCR, and the
\* command that starts a sequential transfer carries a block number for
\* such a card and a byte offset for any other.
C32_BlockAddresses ==
  /\ Connected => (hs.ba <=> hs.ccs)
  /\ call.addr # "none" => (call.addr = "block" <=> hs.ccs)

\* A card that answers the read of its OCR before recvr1 gives up, with the
\* CCS bit clear, leaves block_addresses FALSE.
C32_ClearedByOcr ==
  [][(Running("conn_ocr") /\ hs' # hs /\ hs'.r # 255 /\ ~hs'.ccs) => ~hs'.ba]_vars

\* A call of mmcConnect that does not read the OCR, the card having answered
\* 0x05 to the interface condition, leaves block_addresses FALSE.
C32_ClearedWithoutOcr ==
  (Connected /\ hs.acmd41 = 0) => ~hs.ba

\* The command that starts a transfer on a card that did not report CCS
\* carries a byte offset.
C32_ByteOffset ==
  (call.addr # "none" /\ ~hs.ccs) => call.addr = "byte"

\* block_addresses, once set, stays set, whatever card is connected later.
C32_NeverCleared == [][hs.ba => hs'.ba]_vars

\* The command that starts a transfer is addressed as block_addresses says.
C32_AddressFollowsFlag ==
  call.addr # "none" => call.addr = StartAddress(hs.ba)

\* A card that reported CCS is connected and a transfer was started on it
\* with a block number.
C32_Witness ==
  /\ NoCallInProgress
  /\ call.fn \in {"startread", "startwrite"}
  /\ call.ret = "FALSE"
  /\ call.addr = "block"
  /\ hs.ba
  /\ hs.ccs

====
